---- MODULE Spec2Model ----
(***************************************************************************)
(* The catchpoint tracker of the ledger (package ledger, catchpointTracker) *)
(* as a state machine: the persisted tracker store, the two catchpoint      *)
(* directories, the tracker's in-memory fields, the commit pipeline that    *)
(* drives prepareCommit / commitRound / postCommit / postCommitUnlocked,    *)
(* process crashes, loadFromDisk with its crash recovery, and               *)
(* GetCatchpointStream.                                                     *)
(***************************************************************************)
EXTENDS Integers, Sequences, FiniteSets, TLC

\* ------------------------------------------------------------------ bounds
\* The last block round the ledger produces.
MaxRound == 4
\* How many produced commit tasks may wait for the commit syncer.
MaxQueue == 1
\* How often one commit transaction is retried (clearCommitRoundRetry).
MaxRetries == 1
\* Arguments of the round calculations when they are called on their own.
MaxBase == 3
MaxOffset == 4
MaxInterval == 3
MaxLookback == 3
\* The archives made when the file history is looked at on its own.
MaxArchives == 5
\* The entries of a data file and the bytes of an entry when the repacking
\* is looked at on its own.
MaxEntries == 3
MaxChunkLen == 2
\* The values an account, a resource or a key has when the trie updates are
\* looked at on their own: 0 is the empty (or nil) value.
MaxData == 2
\* How many chunks a first-stage data file has at most.
MaxChunks == 7
\* The last instant of the phonebook's clock, the longest list of connection
\* times an address gets, and the largest rate limit.
MaxTime == 4
MaxTimes == 3
MaxRateLimit == 2

\* The consensus parameter CatchpointLookback (dcc.catchpointLookback).
Lookbacks == {1}
\* The configured CatchpointInterval when catchpoint tracking is on.
Intervals == {2}

Rounds == 0..MaxRound

\* ------------------------------------------------------- consensus protocols
\* A protocol is known by its two catchpoint flags.
Protocols == {"v6", "v7", "v8", "vx"}
EnableCatchpointsWithSPContexts(p) == p \in {"v7", "v8"}
EnableCatchpointsWithOnlineAccounts(p) == p \in {"v8", "vx"}

\* ------------------------------------------------------------- file versions
CatchpointFileVersionV6 == 129
CatchpointFileVersionV7 == 130
CatchpointFileVersionV8 == 131

\* ------------------------------------------------------------------- ledger
\* The block of round r: its digest and the account state it leaves behind.
\* One account whose encoded data differs in every round; round 0 has none.
BlockDigest(r) == r
AccountHash(r) == r
AccountsTotals(r) == r
ZeroDigest == 0
NilTrie == {-1}
NoLabel == <<>>
None == [ none |-> TRUE ]

VARIABLES
    cfg,                        \* the node's configuration (initialize)
    latest,                     \* the last round in the block database
    db,                         \* the tracker store (persisted)
    txn,                        \* the open commit transaction's view of the store
    dataFiles,                  \* tmpDir/catchpoints/<round>.data
    archives,                   \* dbDirectory/catchpoints/<round>.catchpoint
    catchpointDataWriting,      \* the writing sentinel
    catchpointDataSlowWriting,  \* the slow/fast channel: "open" or "closed"
    balancesTrie,               \* the in-memory trie, or NilTrie
    roundDigest,                \* digests of rounds cachedDBRound+1 ..
    consensusVersion,           \* protocols of rounds cachedDBRound+1 ..
    reenableCatchpointsRound,
    cachedDBRound,
    lastCatchpointLabel,
    queue,                      \* tasks produced, waiting for the commit syncer
    dcc,                        \* the deferred commit context being committed
    pc,                         \* where the commit syncer / loadFromDisk stands
    caller,                     \* "commit" or "boot": who runs the stage steps
    rounds,                     \* stage-2 rounds still to finish
    st,                         \* locals of the running stage step
    retries,                    \* retries of the current commit transaction
    stream,                     \* what the last GetCatchpointStream returned
    obs,                        \* observations of the run (history)
    call,                       \* a call of a pure function: its input and output
    phonebook                   \* the phonebook of the network, its clock, its last call

vars == <<cfg, latest, db, txn, dataFiles, archives, catchpointDataWriting,
          catchpointDataSlowWriting, balancesTrie, roundDigest, consensusVersion,
          reenableCatchpointsRound, cachedDBRound, lastCatchpointLabel, queue,
          dcc, pc, caller, rounds, st, retries, stream, obs, call, phonebook>>

envVars == <<cfg, latest, call, phonebook>>
fsVars == <<dataFiles, archives>>
memVars == <<catchpointDataWriting, catchpointDataSlowWriting, balancesTrie,
             roundDigest, consensusVersion, reenableCatchpointsRound,
             cachedDBRound, lastCatchpointLabel>>
ctlVars == <<queue, dcc, pc, caller, rounds, st, retries>>

\* ------------------------------------------------------------ configuration
\* initialize: catchpointInterval (0 when catchpoints are not tracked),
\* enableGeneratingCatchpointFiles, catchpointFileHistoryLength; and the chain's
\* consensus: the lookback and the protocol of every block.
Configs ==
    [ catchpointInterval : Intervals \cup {0},
      enableGeneratingCatchpointFiles : BOOLEAN,
      catchpointFileHistoryLength : {-1},
      catchpointLookback : Lookbacks,
      proto : {"v7"} ]

catchpointEnabled == cfg.catchpointInterval # 0
BlockProto(r) == cfg.proto

\* ------------------------------------------------------------------ helpers
Put(f, k, v) == [x \in (DOMAIN f) \cup {k} |-> IF x = k THEN v ELSE f[x]]
Drop(f, S) == [x \in (DOMAIN f) \ S |-> f[x]]
Min(S) == CHOOSE x \in S : \A y \in S : x <= y
RECURSIVE SortedSeq(_)
SortedSeq(S) == IF S = {} THEN <<>> ELSE <<Min(S)>> \o SortedSeq(S \ {Min(S)})
SeqFrom(a, b) == [i \in 1..(b - a + 1) |-> a + i - 1]

\* ------------------------------------------------------------ the scheduler
\* A variant that forgets the round at which catchpoints are re-enabled.
calculateFirstStageRounds_FromBase(oldBase, offset, reenable, interval, lookback) ==
    IF reenable = 0
    THEN [has |-> FALSE, multi |-> FALSE, newOffset |-> offset]
    ELSE LET first == ((oldBase + 1 + lookback + interval - 1)
                          \div interval) * interval - lookback
             last == ((oldBase + offset + lookback) \div interval) * interval
                          - lookback
         IN  IF first <= last
             THEN [has |-> TRUE, multi |-> first < last,
                   newOffset |-> last - oldBase]
             ELSE [has |-> FALSE, multi |-> FALSE, newOffset |-> offset]

\* A variant that leaves the offset as it was offered.
calculateFirstStageRounds_Unnarrowed(oldBase, offset, reenable, interval, lookback) ==
    IF reenable = 0
    THEN [has |-> FALSE, multi |-> FALSE, newOffset |-> offset]
    ELSE LET minFirstStageRound ==
                 IF reenable > lookback /\ reenable - lookback > oldBase + 1
                 THEN reenable - lookback ELSE oldBase + 1
             first == ((minFirstStageRound + lookback + interval - 1)
                          \div interval) * interval - lookback
             last == ((oldBase + offset + lookback) \div interval) * interval
                          - lookback
         IN  [has |-> first <= last, multi |-> first < last,
              newOffset |-> offset]

\* A variant that never reports more than one first-stage round.
calculateFirstStageRounds_NoMulti(oldBase, offset, reenable, interval, lookback) ==
    IF reenable = 0
    THEN [has |-> FALSE, multi |-> FALSE, newOffset |-> offset]
    ELSE LET minFirstStageRound ==
                 IF reenable > lookback /\ reenable - lookback > oldBase + 1
                 THEN reenable - lookback ELSE oldBase + 1
             first == ((minFirstStageRound + lookback + interval - 1)
                          \div interval) * interval - lookback
             last == ((oldBase + offset + lookback) \div interval) * interval
                          - lookback
         IN  IF first <= last
             THEN [has |-> TRUE, multi |-> FALSE, newOffset |-> last - oldBase]
             ELSE [has |-> FALSE, multi |-> FALSE, newOffset |-> offset]

\* A variant that rounds the last first-stage round up instead of down.
calculateFirstStageRounds_RoundedUp(oldBase, offset, reenable, interval, lookback) ==
    IF reenable = 0
    THEN [has |-> FALSE, multi |-> FALSE, newOffset |-> offset]
    ELSE LET minFirstStageRound ==
                 IF reenable > lookback /\ reenable - lookback > oldBase + 1
                 THEN reenable - lookback ELSE oldBase + 1
             first == ((minFirstStageRound + lookback + interval - 1)
                          \div interval) * interval - lookback
             last == ((oldBase + offset + lookback + interval - 1)
                          \div interval) * interval - lookback
         IN  IF first <= last
             THEN [has |-> TRUE, multi |-> first < last,
                   newOffset |-> last - oldBase]
             ELSE [has |-> FALSE, multi |-> FALSE, newOffset |-> offset]

\* calculateFirstStageRounds: whether a first-stage round lies in
\* (oldBase, oldBase+offset], whether more than one does, and the new offset.
calculateFirstStageRounds(oldBase, offset, reenable, interval, lookback) ==
    IF reenable = 0
    THEN [has |-> FALSE, multi |-> FALSE, newOffset |-> offset]
    ELSE LET minFirstStageRound ==
                 IF reenable > lookback /\ reenable - lookback > oldBase + 1
                 THEN reenable - lookback ELSE oldBase + 1
             first == ((minFirstStageRound + lookback + interval - 1)
                          \div interval) * interval - lookback
             last == ((oldBase + offset + lookback) \div interval) * interval
                          - lookback
         IN  IF first <= last
             THEN [has |-> TRUE, multi |-> first < last,
                   newOffset |-> last - oldBase]
             ELSE [has |-> FALSE, multi |-> FALSE, newOffset |-> offset]

\* A variant that rounds the lower end down.
calculateCatchpointRoundsIn_RoundedDown(min, max, interval) ==
    LET l == min \div interval
        r == max \div interval
    IN  IF l > r THEN <<>> ELSE [i \in 1..(r - l + 1) |-> (l + i - 1) * interval]

\* calculateCatchpointRounds(min, max, interval): the multiples of interval
\* in [min, max], ascending.
calculateCatchpointRoundsIn(min, max, interval) ==
    LET l == (min + interval - 1) \div interval
        r == max \div interval
    IN  IF l > r THEN <<>> ELSE [i \in 1..(r - l + 1) |-> (l + i - 1) * interval]

\* ct.calculateCatchpointRounds(dcc): the stage-2 rounds of a commit range.
calculateCatchpointRounds(d) ==
    IF cfg.catchpointInterval = 0 THEN <<>>
    ELSE LET min == IF cfg.catchpointLookback + 1 > d.oldBase + 1
                    THEN cfg.catchpointLookback + 1 ELSE d.oldBase + 1
         IN  calculateCatchpointRoundsIn(min, d.oldBase + d.offset,
                                         cfg.catchpointInterval)

\* A variant that never sees the sentinel.
isWritingCatchpointDataFile_Never == FALSE

isWritingCatchpointDataFile == catchpointDataWriting # 0

\* ------------------------------------------------------------------- state
InitDB ==
    [ round |-> 0,          \* the tracker DB round (accounts round)
      hashRound |-> 0,      \* the round the persisted trie stands at
      trie |-> {},          \* the persisted merkle trie: its digests
      flag |-> 0,           \* catchpoint state WritingFirstStageInfo
      lookback |-> 0,       \* catchpoint state CatchpointLookback
      label |-> NoLabel,    \* catchpoint state LastCatchpoint
      info |-> <<>>,        \* CatchpointFirstStageInfo rows, by accounts round
      unfinished |-> <<>>,  \* UnfinishedCatchpoint rows: round -> block hash
      files |-> {} ]        \* the catchpoint file registry: rounds stored

NoObs == [ produced |-> "none",  \* what the last produceCommittingTask did
           offered |-> 0,        \* the offset it was offered
           found |-> "none",     \* the channel a refusing call found
           cancelled |-> None,   \* the last cancelled task: [by, first, was]
           made |-> {},          \* the rounds ProduceArchive made archives of
           tampered |-> FALSE,   \* a file was lost or the history length changed
           highest |-> 0,        \* the highest round a stage 2 made a label of
           boot |-> None,        \* what loadFromDisk found and did
           crashed |-> None ]    \* the first stage a crash interrupted
\* Locals and results of the stage steps of postCommitUnlocked / recoverFromCrash.
NoSt == [ fsErr |-> FALSE,      \* finishFirstStage returned an error
          cancelled |-> FALSE,  \* the data writer was cancelled (and aborted)
          gen |-> None,         \* the last generateCatchpointData: [round, end]
          fc |-> None,          \* the last finishCatchpoint: [round, err, at]
          pruned |-> None ]     \* the last pruning: [max, rows, files, present]

\* The tracker as initialize leaves it, before loadFromDisk.
Constructed ==
    /\ latest = 0
    /\ db = InitDB
    /\ txn = None
    /\ dataFiles = <<>>
    /\ archives = <<>>
    /\ catchpointDataWriting = 0
    /\ catchpointDataSlowWriting = "closed"
    /\ balancesTrie = NilTrie
    /\ roundDigest = <<>>
    /\ consensusVersion = <<>>
    /\ reenableCatchpointsRound = 0
    /\ cachedDBRound = 0
    /\ lastCatchpointLabel = NoLabel
    /\ queue = <<>>
    /\ dcc = None
    /\ pc = "down"
    /\ caller = "boot"
    /\ rounds = <<>>
    /\ st = NoSt
    /\ retries = 0
    /\ stream = None
    /\ obs = NoObs

Init ==
    /\ cfg \in Configs
    /\ Constructed
    /\ call = None
    /\ phonebook = None

Running == pc \in {"idle", "commit", "tx", "failed", "postCommit", "firstStage",
                   "writing", "info", "catchpoints", "repack", "record", "prune"}
               /\ (caller = "commit" \/ pc = "idle")

\* ------------------------------------------------------------------ newBlock
\* newBlock: the ledger hands the tracker the next block, a new one or, after
\* a restart, one replayed from the block database.
newBlock ==
    /\ Running
    /\ LET rnd == cachedDBRound + Len(roundDigest) + 1
           p == BlockProto(rnd)
       IN  /\ rnd <= MaxRound
           /\ latest' = IF rnd > latest THEN rnd ELSE latest
           /\ roundDigest' = Append(roundDigest, BlockDigest(rnd))
           /\ consensusVersion' = Append(consensusVersion, p)
           /\ reenableCatchpointsRound' =
                 IF EnableCatchpointsWithSPContexts(p)
                       /\ reenableCatchpointsRound = 0
                 THEN rnd + cfg.catchpointLookback
                 ELSE reenableCatchpointsRound
    /\ UNCHANGED <<call, phonebook, cfg, db, txn, fsVars, catchpointDataWriting,
                   catchpointDataSlowWriting, balancesTrie, cachedDBRound,
                   lastCatchpointLabel, ctlVars, stream, obs>>

\* ------------------------------------------------------ produceCommittingTask
Task(oldBase, offset, first, second) ==
    [ oldBase |-> oldBase, offset |-> offset,
      catchpointFirstStage |-> first, catchpointSecondStage |-> second ]

\* make(chan struct{}, 1) and close: closing a channel that is already closed
\* panics.
MakeChan == "open"
Close(channel) == IF channel = "open" THEN "closed" ELSE "panic"

\* The slow-writing channel after a call that finds the writer busy: when the
\* offered range has a first-stage round, the select leaves a closed channel
\* alone and closes an open one; else the channel is as it was. And a variant
\* that never closes it, and one that closes it without the select.
SlowWritingWhileBusy_Untouched(has, channel) == channel
SlowWritingWhileBusy_NoSelect(has, channel) ==
    IF has THEN Close(channel) ELSE channel
SlowWritingWhileBusy(has, channel) ==
    IF has
    THEN (IF channel = "closed" THEN channel ELSE Close(channel))
    ELSE channel

\* The ledger offers the range (cachedDBRound, cachedDBRound + offset].
produceCommittingTask ==
    /\ Running
    /\ Len(queue) < MaxQueue
    /\ \E offset \in 1..Len(roundDigest) :
         IF cfg.catchpointInterval = 0
         THEN /\ queue' = Append(queue, Task(cachedDBRound, offset, FALSE, FALSE))
              /\ obs' = [obs EXCEPT !.produced = "task", !.offered = offset,
                                        !.found = "none", !.cancelled = None]
              /\ UNCHANGED catchpointDataSlowWriting
         ELSE LET c == calculateFirstStageRounds(cachedDBRound, offset,
                           reenableCatchpointsRound, cfg.catchpointInterval,
                           cfg.catchpointLookback)
                  d == Task(cachedDBRound, c.newOffset, c.has, FALSE)
              IN  IF isWritingCatchpointDataFile
                  THEN \* still writing the previous balances: no task
                       /\ catchpointDataSlowWriting' =
                             SlowWritingWhileBusy(c.has,
                                                  catchpointDataSlowWriting)
                       /\ obs' = [obs EXCEPT !.produced = "refused", !.offered = offset,
                                         !.found = catchpointDataSlowWriting,
                                         !.cancelled = None]
                       /\ UNCHANGED queue
                  ELSE /\ catchpointDataSlowWriting' =
                             IF c.has /\ cfg.enableGeneratingCatchpointFiles
                             THEN (IF c.multi THEN Close(MakeChan) ELSE MakeChan)
                             ELSE catchpointDataSlowWriting
                       /\ queue' = Append(queue,
                             [d EXCEPT !.catchpointSecondStage =
                                  calculateCatchpointRounds(d) # <<>>])
                       /\ obs' = [obs EXCEPT !.produced = "task", !.offered = offset,
                                        !.found = "none", !.cancelled = None]
    /\ UNCHANGED <<call, phonebook, cfg, latest, db, txn, fsVars, catchpointDataWriting,
                   balancesTrie, roundDigest, consensusVersion,
                   reenableCatchpointsRound, cachedDBRound, lastCatchpointLabel,
                   dcc, pc, caller, rounds, st, retries, stream>>

\* ------------------------------------------------------------ the merkle trie
\* The trie is known by the digests it holds; its root hash is a function of
\* that set. Delete and Add report whether the trie changed.
RootHash(trie) == trie

\* The compacted account deltas of the rounds (oldBase, newBase].
CompactDeltas(oldBase, newBase) ==
    << [ old |-> IF oldBase = 0 THEN ZeroDigest ELSE AccountHash(oldBase),
         new |-> AccountHash(newBase) ] >>

\* A variant that never counts a change, so that nothing is committed.
RECURSIVE accountsUpdateBalances_Uncounted(_, _, _)
accountsUpdateBalances_Uncounted(trie, deltas, accumulatedChanges) ==
    IF deltas = <<>>
    THEN [trie |-> trie, accumulatedChanges |-> 0, logged |-> 0,
          err |-> FALSE]
    ELSE LET d == Head(deltas)
             t1 == IF d.old # ZeroDigest THEN trie \ {d.old} ELSE trie
             t2 == IF d.new # ZeroDigest THEN t1 \cup {d.new} ELSE t1
         IN  accountsUpdateBalances_Uncounted(t2, Tail(deltas), 0)

\* accountsUpdateBalances: delete the old hash of every delta whose old value
\* is not empty, add the new hash of every delta whose new value is not empty;
\* a delete or add that changes nothing (a false return) is logged with
\* ct.log.Errorf and the loop goes on: the error returned is that of the trie
\* or of its commit, never the false return. logged counts the false returns.
RECURSIVE accountsUpdateBalances(_, _, _)
accountsUpdateBalances(trie, deltas, accumulatedChanges) ==
    IF deltas = <<>>
    THEN [trie |-> trie, accumulatedChanges |-> accumulatedChanges,
          logged |-> 0, err |-> FALSE]
    ELSE LET d == Head(deltas)
             deleted == d.old # ZeroDigest /\ d.old \in trie
             t1 == IF d.old # ZeroDigest THEN trie \ {d.old} ELSE trie
             added == d.new # ZeroDigest /\ d.new \notin t1
             t2 == IF d.new # ZeroDigest THEN t1 \cup {d.new} ELSE t1
             rest == accountsUpdateBalances(t2, Tail(deltas),
                         accumulatedChanges + (IF deleted THEN 1 ELSE 0)
                                            + (IF added THEN 1 ELSE 0))
         IN  [rest EXCEPT !.logged = @
                  + (IF d.old # ZeroDigest /\ ~deleted THEN 1 ELSE 0)
                  + (IF d.new # ZeroDigest /\ ~added THEN 1 ELSE 0)]

\* ------------------------------------------------------- the commit pipeline
newBase(d) == d.oldBase + d.offset

\* A variant that never gives the sentinel back.
cancelWrite_Never(d) == catchpointDataWriting

\* cancelWrite: a cancelled first-stage task gives the sentinel back.
cancelWrite(d) ==
    IF cfg.enableGeneratingCatchpointFiles /\ d.catchpointFirstStage
    THEN 0 ELSE catchpointDataWriting

\* The commit syncer takes the next task; its range starts at the DB round.
InOrder(d) == d.oldBase = cachedDBRound

\* handleUnorderedCommit: the task is out of order and is dropped.
handleUnorderedCommit ==
    /\ pc = "idle" /\ queue # <<>>
    /\ ~InOrder(Head(queue))
    /\ catchpointDataWriting' = cancelWrite(Head(queue))
    /\ queue' = Tail(queue)
    /\ obs' = [obs EXCEPT !.cancelled =
                  [ by |-> "handleUnorderedCommit",
                    first |-> Head(queue).catchpointFirstStage,
                    was |-> catchpointDataWriting ]]
    /\ UNCHANGED <<envVars, db, txn, fsVars, catchpointDataSlowWriting,
                   balancesTrie, roundDigest, consensusVersion,
                   reenableCatchpointsRound, cachedDBRound, lastCatchpointLabel,
                   dcc, pc, caller, rounds, st, retries, stream>>

\* The sentinel after prepareCommit: all ones for a first-stage task of a
\* node that generates catchpoint files, else as it was. And a variant that
\* raises it on every node.
RaiseSentinel_OnEveryNode(d) ==
    IF d.catchpointFirstStage THEN -1 ELSE catchpointDataWriting
RaiseSentinel(d) ==
    IF cfg.enableGeneratingCatchpointFiles /\ d.catchpointFirstStage
    THEN -1 ELSE catchpointDataWriting

\* prepareCommit: raise the sentinel for a first-stage task and copy the
\* digests and protocols of the range.
prepareCommit ==
    /\ pc = "idle" /\ queue # <<>>
    /\ InOrder(Head(queue))
    /\ LET d == Head(queue)
       IN  /\ catchpointDataWriting' = RaiseSentinel(d)
           /\ dcc' = [ oldBase |-> d.oldBase, offset |-> d.offset,
                       catchpointFirstStage |-> d.catchpointFirstStage,
                       catchpointSecondStage |-> d.catchpointSecondStage,
                       committedRoundDigests |-> SubSeq(roundDigest, 1, d.offset),
                       committedProtocolVersion |->
                           SubSeq(consensusVersion, 1, d.offset) ]
    /\ queue' = Tail(queue)
    /\ pc' = "commit"
    /\ caller' = "commit"
    /\ retries' = 0
    /\ st' = NoSt
    /\ obs' = [obs EXCEPT !.boot = None, !.crashed = None, !.offered = 0,
                       !.cancelled = None]
    /\ UNCHANGED <<envVars, db, txn, fsVars, catchpointDataSlowWriting,
                   balancesTrie, roundDigest, consensusVersion,
                   reenableCatchpointsRound, cachedDBRound, lastCatchpointLabel,
                   rounds, stream>>

\* handlePrepareCommitError: the preparation of the commit failed (in this or
\* another tracker) after prepareCommit ran; the write is cancelled.
handlePrepareCommitError ==
    /\ pc = "commit" /\ txn = None /\ retries = 0
    /\ catchpointDataWriting' = cancelWrite(dcc)
    /\ dcc' = None
    /\ pc' = "idle"
    /\ obs' = [obs EXCEPT !.cancelled =
                  [ by |-> "handlePrepareCommitError",
                    first |-> dcc.catchpointFirstStage,
                    was |-> catchpointDataWriting ]]
    /\ UNCHANGED <<envVars, db, txn, fsVars, catchpointDataSlowWriting,
                   balancesTrie, roundDigest, consensusVersion,
                   reenableCatchpointsRound, cachedDBRound, lastCatchpointLabel,
                   queue, caller, rounds, st, retries, stream>>

\* The trie commitRound works on: the in-memory trie, re-created from the
\* persisted committer when there is none.
TrieForCommit == IF balancesTrie = NilTrie THEN db.trie ELSE balancesTrie

\* The stage-2 rounds of the range with the digests of their blocks.
RECURSIVE InsertUnfinished(_, _, _)
InsertUnfinished(unfinished, rs, d) ==
    IF rs = <<>> THEN unfinished
    ELSE InsertUnfinished(
             Put(unfinished, Head(rs),
                 d.committedRoundDigests[Head(rs) - d.oldBase]),
             Tail(rs), d)

\* A variant that raises the WritingFirstStageInfo flag in every commit.
commitRoundWrites_AlwaysFlag ==
    LET upd == accountsUpdateBalances(TrieForCommit,
                   CompactDeltas(dcc.oldBase, newBase(dcc)), 0)
        treeTargetRound == IF catchpointEnabled THEN newBase(dcc) ELSE 0
    IN  [ mem |-> IF catchpointEnabled THEN upd.trie ELSE balancesTrie,
          tx |-> [ hashRound |-> treeTargetRound,
                   trie |-> IF catchpointEnabled /\ upd.accumulatedChanges > 0
                            THEN upd.trie ELSE db.trie,
                   flag |-> 1,
                   lookback |-> cfg.catchpointLookback,
                   unfinished |-> InsertUnfinished(db.unfinished,
                                      calculateCatchpointRounds(dcc), dcc) ] ]

\* What a commitRound that returns without error has written inside the
\* commit transaction, and the trie it leaves in memory.
commitRoundWrites ==
    LET upd == accountsUpdateBalances(TrieForCommit,
                   CompactDeltas(dcc.oldBase, newBase(dcc)), 0)
        treeTargetRound == IF catchpointEnabled THEN newBase(dcc) ELSE 0
    IN  [ mem |-> IF catchpointEnabled THEN upd.trie ELSE balancesTrie,
          tx |-> [ hashRound |-> treeTargetRound,
                   trie |-> IF catchpointEnabled /\ upd.accumulatedChanges > 0
                            THEN upd.trie ELSE db.trie,
                   flag |-> IF dcc.catchpointFirstStage THEN 1 ELSE db.flag,
                   lookback |-> cfg.catchpointLookback,
                   unfinished |-> InsertUnfinished(db.unfinished,
                                      calculateCatchpointRounds(dcc), dcc) ] ]

\* commitRound returns without error; the transaction is still open.
commitRound ==
    /\ pc = "commit"
    /\ balancesTrie' = commitRoundWrites.mem
    /\ txn' = commitRoundWrites.tx
    /\ pc' = "tx"
    /\ UNCHANGED <<envVars, db, fsVars, catchpointDataWriting,
                   catchpointDataSlowWriting, roundDigest, consensusVersion,
                   reenableCatchpointsRound, cachedDBRound, lastCatchpointLabel,
                   queue, dcc, caller, rounds, st, retries, stream, obs>>

\* commitRound returns an error, before or after it has touched the trie; its
\* deferred function gives the sentinel back.
commitRoundError ==
    /\ pc = "commit"
    /\ \E touched \in BOOLEAN :
         balancesTrie' = IF touched THEN commitRoundWrites.mem
                         ELSE balancesTrie
    /\ catchpointDataWriting' = cancelWrite(dcc)
    /\ pc' = "failed"
    /\ UNCHANGED <<envVars, db, txn, fsVars, catchpointDataSlowWriting,
                   roundDigest, consensusVersion, reenableCatchpointsRound,
                   cachedDBRound, lastCatchpointLabel, queue, dcc, caller,
                   rounds, st, retries, stream, obs>>

\* The ledger commits the transaction: what commitRound wrote, and the new
\* accounts round, become the store's state.
TxCommit ==
    /\ pc = "tx"
    /\ db' = [db EXCEPT !.round = newBase(dcc),
                        !.hashRound = txn.hashRound,
                        !.trie = txn.trie,
                        !.flag = txn.flag,
                        !.lookback = txn.lookback,
                        !.unfinished = txn.unfinished]
    /\ txn' = None
    /\ pc' = "postCommit"
    /\ UNCHANGED <<envVars, fsVars, memVars, queue, dcc, caller, rounds, st,
                   retries, stream, obs>>

\* The transaction fails after commitRound returned (another tracker, or the
\* commit to disk): nothing of it is persisted.
TxFail ==
    /\ pc = "tx"
    /\ txn' = None
    /\ pc' = "failed"
    /\ UNCHANGED <<envVars, db, fsVars, memVars, queue, dcc, caller, rounds, st,
                   retries, stream, obs>>

\* A variant of the handlers that keeps the in-memory trie.
ClearedTrie_Kept == balancesTrie

\* ct.balancesTrie = nil in clearCommitRoundRetry and handleCommitError.
ClearedTrie == NilTrie

\* clearCommitRoundRetry: the transaction is retried; the trie is dropped.
clearCommitRoundRetry ==
    /\ pc = "failed"
    /\ retries < MaxRetries
    /\ retries' = retries + 1
    /\ balancesTrie' = ClearedTrie
    /\ pc' = "commit"
    /\ UNCHANGED <<envVars, db, txn, fsVars, catchpointDataWriting,
                   catchpointDataSlowWriting, roundDigest, consensusVersion,
                   reenableCatchpointsRound, cachedDBRound, lastCatchpointLabel,
                   queue, dcc, caller, rounds, st, stream, obs>>

\* handleCommitError: the commit failed for good; the trie is dropped and the
\* write cancelled.
handleCommitError ==
    /\ pc = "failed"
    /\ balancesTrie' = ClearedTrie
    /\ catchpointDataWriting' = cancelWrite(dcc)
    /\ dcc' = None
    /\ pc' = "idle"
    /\ UNCHANGED <<envVars, db, txn, fsVars, catchpointDataSlowWriting,
                   roundDigest, consensusVersion, reenableCatchpointsRound,
                   cachedDBRound, lastCatchpointLabel, queue, caller, rounds,
                   st, retries, stream, obs>>

\* A variant that trims one entry whatever the offset.
TrimCommitted_One(list, offset) == Tail(list)

\* list[dcc.offset:] in postCommit.
TrimCommitted(list, offset) == SubSeq(list, offset + 1, Len(list))

\* postCommit: trim the digests and protocols of the committed rounds and
\* advance the cached DB round; postCommitUnlocked follows.
postCommit ==
    /\ pc = "postCommit"
    /\ roundDigest' = TrimCommitted(roundDigest, dcc.offset)
    /\ consensusVersion' = TrimCommitted(consensusVersion, dcc.offset)
    /\ cachedDBRound' = newBase(dcc)
    /\ pc' = IF dcc.catchpointFirstStage THEN "firstStage" ELSE "catchpoints"
    /\ rounds' = calculateCatchpointRounds(dcc)
    /\ UNCHANGED <<envVars, db, txn, fsVars, catchpointDataWriting,
                   catchpointDataSlowWriting, balancesTrie,
                   reenableCatchpointsRound, lastCatchpointLabel, queue, dcc,
                   caller, st, retries, stream, obs>>

\* --------------------------------------------------------- the first stage
\* The accounts round and block protocol finishFirstStage is called with: by
\* postCommitUnlocked the new base and the protocol of its block, by
\* finishFirstStageAfterCrash the DB round and the protocol of its header.
FirstStageRound == IF caller = "commit" THEN newBase(dcc) ELSE db.round
FirstStageProto ==
    IF caller = "commit" THEN dcc.committedProtocolVersion[dcc.offset]
    ELSE BlockProto(db.round)

\* The first-stage info recordFirstStageInfo builds: the account totals of the
\* store, the trie's root, the verification hashes and what the writer counted.
FirstStageInfo(proto, trie, wrote) ==
    [ Totals |-> AccountsTotals(db.round),
      TrieBalancesHash |-> RootHash(trie),
      StateProofVerificationHash |->
          IF EnableCatchpointsWithSPContexts(proto) THEN db.round + 1
          ELSE ZeroDigest,
      OnlineAccountsHash |->
          IF EnableCatchpointsWithOnlineAccounts(proto) THEN db.round + 1
          ELSE ZeroDigest,
      OnlineRoundParamsHash |->
          IF EnableCatchpointsWithOnlineAccounts(proto) THEN db.round + 1
          ELSE ZeroDigest,
      TotalChunks |-> IF wrote THEN 1 ELSE 0 ]

\* SelectUnfinishedCatchpoints: the unfinished records of the store, by round.
SelectUnfinishedCatchpoints == SortedSeq(DOMAIN db.unfinished)

\* What follows finishFirstStage. In postCommitUnlocked an error is logged and
\* the stage-2 rounds of the range come next; in recoverFromCrash an error
\* fails loadFromDisk, and otherwise the unfinished catchpoints come next
\* (when a lookback has been persisted).
AfterFirstStage(err) ==
    IF caller = "commit"
    THEN /\ pc' = "catchpoints"
         /\ UNCHANGED rounds
    ELSE IF err
    THEN /\ pc' = "down"
         /\ UNCHANGED rounds
    ELSE /\ pc' = "catchpoints"
         /\ rounds' = IF db.lookback # 0 THEN SelectUnfinishedCatchpoints
                      ELSE <<>>

\* finishFirstStage, up to the start of the data file: compute the
\* verification hashes the protocol asks for (a store error returns at once),
\* then, when files are generated, create the data file writer.
finishFirstStage ==
    /\ pc = "firstStage"
    /\ \E hashErr \in BOOLEAN :
         /\ hashErr => (EnableCatchpointsWithSPContexts(FirstStageProto)
                         \/ EnableCatchpointsWithOnlineAccounts(FirstStageProto))
         /\ IF hashErr
            THEN /\ st' = [st EXCEPT !.fsErr = TRUE]
                 /\ AfterFirstStage(TRUE)
                 /\ UNCHANGED dataFiles
            ELSE IF cfg.enableGeneratingCatchpointFiles
            THEN /\ dataFiles' = Put(dataFiles, FirstStageRound, "partial")
                 /\ pc' = "writing"
                 /\ UNCHANGED <<st, rounds>>
            ELSE /\ pc' = "info"
                 /\ UNCHANGED <<st, rounds, dataFiles>>
    /\ obs' = IF caller = "boot"
              THEN [obs EXCEPT !.boot.replays = @ + 1]
              ELSE obs
    /\ UNCHANGED <<envVars, db, txn, archives, memVars, queue, dcc, caller,
                   retries, stream>>

\* The ends of generateCatchpointData: the writer wrote all its chunks; a
\* write step failed (the file is aborted); the wait between chunks was
\* cancelled (the file is aborted and no error is returned); or writing the
\* state proof verification context failed, where the function returns the
\* error and does not abort the file.
WriterEnds(proto) ==
    {"done", "error", "cancel"}
        \cup (IF EnableCatchpointsWithSPContexts(proto) THEN {"context"} ELSE {})

\* Abort of the data file writer: the partial file is deleted.
Abort(files, round) == Drop(files, {round})

\* generateCatchpointData: the writer ends in one of its ways.
\* finishFirstStage then gives the sentinel back.
generateCatchpointData ==
    /\ pc = "writing"
    /\ \E end \in WriterEnds(FirstStageProto) :
         /\ end = "cancel" => caller = "commit"
         /\ dataFiles' = IF end = "done"
                         THEN Put(dataFiles, FirstStageRound, "complete")
                         ELSE IF end = "context" THEN dataFiles
                         ELSE Abort(dataFiles, FirstStageRound)
         /\ IF end \in {"error", "context"}
            THEN /\ st' = [st EXCEPT !.fsErr = TRUE,
                                     !.gen = [round |-> FirstStageRound,
                                              end |-> end]]
                 /\ AfterFirstStage(TRUE)
            ELSE /\ st' = [st EXCEPT !.cancelled = (end = "cancel"),
                                     !.gen = [round |-> FirstStageRound,
                                              end |-> end]]
                 /\ pc' = "info"
                 /\ UNCHANGED rounds
    /\ catchpointDataWriting' = 0
    /\ UNCHANGED <<envVars, db, txn, archives, catchpointDataSlowWriting,
                   balancesTrie, roundDigest, consensusVersion,
                   reenableCatchpointsRound, cachedDBRound, lastCatchpointLabel,
                   queue, dcc, caller, retries, stream, obs>>

\* The last transaction of finishFirstStage: recordFirstStageInfo inserts the
\* row of the round and the WritingFirstStageInfo flag is cleared, or the
\* transaction fails and changes nothing.
recordFirstStageInfo ==
    /\ pc = "info"
    /\ \E err \in BOOLEAN :
         IF err
         THEN /\ st' = [st EXCEPT !.fsErr = TRUE]
              /\ UNCHANGED <<db, balancesTrie>>
              /\ AfterFirstStage(TRUE)
         ELSE LET trie == IF balancesTrie = NilTrie THEN db.trie
                          ELSE balancesTrie
                  wrote == cfg.enableGeneratingCatchpointFiles /\ ~st.cancelled
              IN  /\ balancesTrie' = trie
                  /\ db' = [db EXCEPT
                         !.info = Put(db.info, FirstStageRound,
                                      FirstStageInfo(FirstStageProto, trie, wrote)),
                         !.flag = 0]
                  /\ UNCHANGED st
                  /\ AfterFirstStage(FALSE)
    /\ UNCHANGED <<envVars, txn, fsVars, catchpointDataWriting,
                   catchpointDataSlowWriting, roundDigest, consensusVersion,
                   reenableCatchpointsRound, cachedDBRound, lastCatchpointLabel,
                   queue, dcc, caller, retries, stream, obs>>

\* -------------------------------------------------------- the second stage
\* The label of a catchpoint: what the label maker of the file version hashes.
MakeLabel_OfBlockRound(version, round, blockHash, dataInfo) ==
    IF version = CatchpointFileVersionV8
    THEN <<version, round, blockHash, dataInfo.TrieBalancesHash,
           AccountsTotals(round),
           dataInfo.StateProofVerificationHash, dataInfo.OnlineAccountsHash,
           dataInfo.OnlineRoundParamsHash>>
    ELSE IF version = CatchpointFileVersionV7
    THEN <<version, round, blockHash, dataInfo.TrieBalancesHash,
           AccountsTotals(round), dataInfo.StateProofVerificationHash>>
    ELSE <<version, round, blockHash, dataInfo.TrieBalancesHash,
           AccountsTotals(round)>>

MakeLabel(version, round, blockHash, dataInfo) ==
    IF version = CatchpointFileVersionV8
    THEN <<version, round, blockHash, dataInfo.TrieBalancesHash, dataInfo.Totals,
           dataInfo.StateProofVerificationHash, dataInfo.OnlineAccountsHash,
           dataInfo.OnlineRoundParamsHash>>
    ELSE IF version = CatchpointFileVersionV7
    THEN <<version, round, blockHash, dataInfo.TrieBalancesHash, dataInfo.Totals,
           dataInfo.StateProofVerificationHash>>
    ELSE <<version, round, blockHash, dataInfo.TrieBalancesHash, dataInfo.Totals>>

FileVersion_SPFirst(proto) ==
    IF EnableCatchpointsWithSPContexts(proto) THEN CatchpointFileVersionV7
    ELSE IF EnableCatchpointsWithOnlineAccounts(proto)
    THEN CatchpointFileVersionV8
    ELSE CatchpointFileVersionV6

FileVersion(proto) ==
    IF EnableCatchpointsWithOnlineAccounts(proto) THEN CatchpointFileVersionV8
    ELSE IF EnableCatchpointsWithSPContexts(proto) THEN CatchpointFileVersionV7
    ELSE CatchpointFileVersionV6

\* createCatchpoint refuses a protocol with online accounts in catchpoints
\* and without state proof contexts.
InvalidVersionParams(proto) ==
    EnableCatchpointsWithOnlineAccounts(proto)
        /\ ~EnableCatchpointsWithSPContexts(proto)

\* finishFirstStage hands the encoded state proof contexts to the data
\* writer, which writes their chunk, when the protocol of the first-stage
\* round has them; the repacking copies the chunks of the data file.
WritesSPVerificationContext(firstStageProto) ==
    EnableCatchpointsWithSPContexts(firstStageProto)

\* createCatchpoint on the info of the accounts round: the version and label
\* of the block's protocol and, when files are generated and the data file is
\* there, the archive with the header of that version.
createCatchpoint(round, dataInfo, blockHash, blockProto, generating, hasChunk) ==
    IF InvalidVersionParams(blockProto)
    THEN [ err |-> TRUE, version |-> 0, label |-> NoLabel, file |-> FALSE,
           header |-> 0, spChunk |-> FALSE ]
    ELSE [ err |-> FALSE,
           version |-> FileVersion(blockProto),
           label |-> MakeLabel(FileVersion(blockProto), round, blockHash,
                               dataInfo),
           file |-> generating,
           header |-> IF generating THEN FileVersion(blockProto) ELSE 0,
           spChunk |-> generating /\ hasChunk ]

\* GetOldestCatchpointFiles(fileCount, filesToKeep): the fileCount oldest
\* registry rows among those that are not the filesToKeep newest.
RECURSIVE Newest(_, _)
Newest(S, n) ==
    IF n = 0 \/ S = {} THEN {}
    ELSE LET m == CHOOSE x \in S : \A y \in S : y <= x
         IN  {m} \cup Newest(S \ {m}, n - 1)
RECURSIVE Oldest(_, _)
Oldest(S, n) ==
    IF n = 0 \/ S = {} THEN {}
    ELSE {Min(S)} \cup Oldest(S \ {Min(S)}, n - 1)
GetOldestCatchpointFiles(files, fileCount, filesToKeep) ==
    Oldest(files \ Newest(files, filesToKeep), fileCount)

\* recordCatchpointFile(round, path): store the file of the round in the
\* registry (an empty path removes the row; with a history length of 0 the
\* file is removed from disk instead), then delete up to 2 of the oldest
\* files beyond the history length, from disk and from the registry.
recordCatchpointFile_NoTrim(files, disk, round, hasPath) ==
    LET histLen == cfg.catchpointFileHistoryLength
        files1 == IF histLen # 0
                  THEN (IF hasPath THEN files \cup {round} ELSE files \ {round})
                  ELSE files
        disk1 == IF histLen = 0 /\ hasPath THEN Drop(disk, {round}) ELSE disk
    IN  [ files |-> files1, disk |-> disk1 ]

recordCatchpointFile(files, disk, round, hasPath) ==
    LET histLen == cfg.catchpointFileHistoryLength
        files1 == IF histLen # 0
                  THEN (IF hasPath THEN files \cup {round} ELSE files \ {round})
                  ELSE files
        disk1 == IF histLen = 0 /\ hasPath THEN Drop(disk, {round}) ELSE disk
        old == IF histLen = -1 THEN {}
               ELSE GetOldestCatchpointFiles(files1, 2, histLen)
    IN  [ files |-> files1 \ old, disk |-> Drop(disk1, old) ]

\* The block hash and protocol finishCatchpoint is called with: by
\* postCommitUnlocked those of the block of the round, by
\* finishCatchpointsAfterCrash the recorded hash and the protocol of the
\* header of the DB round.
CatchpointBlockHash(r) ==
    IF caller = "commit" THEN dcc.committedRoundDigests[r - dcc.oldBase]
    ELSE db.unfinished[r]
CatchpointProto(r) ==
    IF caller = "commit" THEN dcc.committedProtocolVersion[r - dcc.oldBase]
    ELSE BlockProto(db.round)

\* A variant that leaves the catchpoint file where it is.
RemoveStaleCatchpointFile_Keep(disk, round) == disk

\* finishCatchpointsAfterCrash removes the catchpoint file of an unfinished
\* record before it finishes the catchpoint.
RemoveStaleCatchpointFile(disk, round) == Drop(disk, {round})

\* What follows a finishCatchpoint of the first of `rounds`: the next round;
\* in recoverFromCrash an error fails loadFromDisk.
AfterCatchpoint(err) ==
    /\ st' = [st EXCEPT !.fc = [round |-> Head(rounds), err |-> err,
                                at |-> pc]]
    /\ rounds' = Tail(rounds)
    /\ pc' = IF caller = "boot" /\ err THEN "down" ELSE "catchpoints"

\* finishCatchpoint(round) up to the repacking: at boot the stale archive of
\* the round is removed first. Without first-stage info of the accounts round
\* the unfinished record is deleted. Otherwise createCatchpoint makes the
\* label of the protocol's version, writes it to the store and to memory, and
\* returns when files are not generated or the data file is missing; else the
\* output archive is created and the repacking starts.
finishCatchpoint ==
    /\ pc = "catchpoints" /\ rounds # <<>>
    /\ LET round == Head(rounds)
           accountsRound == round - (IF caller = "commit"
                                     THEN cfg.catchpointLookback ELSE db.lookback)
           proto == CatchpointProto(round)
           disk == IF caller = "boot"
                   THEN RemoveStaleCatchpointFile(archives, round)
                   ELSE archives
       IN  \E err \in BOOLEAN :
             IF accountsRound \notin DOMAIN db.info
             THEN /\ db' = IF err THEN db
                           ELSE [db EXCEPT !.unfinished = Drop(@, {round})]
                  /\ archives' = disk
                  /\ AfterCatchpoint(err)
                  /\ UNCHANGED <<lastCatchpointLabel>>
             ELSE IF err \/ InvalidVersionParams(proto)
             THEN /\ archives' = disk
                  /\ AfterCatchpoint(TRUE)
                  /\ UNCHANGED <<db, lastCatchpointLabel>>
             ELSE LET label == MakeLabel(FileVersion(proto), round,
                                   CatchpointBlockHash(round),
                                   db.info[accountsRound])
                  IN  /\ db' = [db EXCEPT !.label = label]
                      /\ lastCatchpointLabel' = label
                      /\ IF cfg.enableGeneratingCatchpointFiles
                            /\ accountsRound \in DOMAIN dataFiles
                         THEN /\ archives' = Put(disk, round, "partial")
                              /\ pc' = "repack"
                              /\ UNCHANGED <<st, rounds>>
                         ELSE /\ archives' = disk
                              /\ AfterCatchpoint(FALSE)
    /\ LET seen == [obs EXCEPT !.highest =
                        IF db'.label # db.label /\ Head(rounds) > @
                        THEN Head(rounds) ELSE @]
       IN  obs' = IF caller = "boot"
              THEN [seen EXCEPT
                     !.boot.reran = @ \cup {<<Head(rounds), db.unfinished[Head(rounds)]>>},
                     !.boot.cleared = @ \cup (IF Head(rounds) \in DOMAIN archives'
                                                 /\ pc' # "repack"
                                              THEN {} ELSE {Head(rounds)}),
                     !.boot.noInfo = @ \cup (IF Head(rounds) - db.lookback
                                                 \in DOMAIN db.info
                                             THEN {} ELSE {Head(rounds)}),
                     !.boot.labelled = @ \cup (IF db'.label # db.label
                                               THEN {Head(rounds)} ELSE {})]
              ELSE seen
    /\ UNCHANGED <<envVars, txn, dataFiles, catchpointDataWriting,
                   catchpointDataSlowWriting, balancesTrie, roundDigest,
                   consensusVersion, reenableCatchpointsRound, cachedDBRound,
                   queue, dcc, caller, retries, stream>>

\* repackCatchpoint: the output archive is written to its end, or the
\* repacking fails (cancelled, a read or write error, a size mismatch) and
\* returns the error, leaving what it wrote.
repackCatchpoint ==
    /\ pc = "repack"
    /\ \E err \in BOOLEAN :
         IF err
         THEN /\ AfterCatchpoint(TRUE)
              /\ UNCHANGED archives
         ELSE /\ archives' = Put(archives, Head(rounds), "complete")
              /\ pc' = "record"
              /\ UNCHANGED <<st, rounds>>
    /\ UNCHANGED <<envVars, db, txn, dataFiles, memVars, queue, dcc, caller,
                   retries, stream, obs>>

\* The last transaction of createCatchpoint: record the catchpoint file and
\* delete the unfinished record, or fail and change nothing.
recordCatchpoint ==
    /\ pc = "record"
    /\ \E err \in BOOLEAN :
         IF err
         THEN /\ UNCHANGED <<db, archives>>
              /\ AfterCatchpoint(TRUE)
         ELSE LET rec == recordCatchpointFile(db.files, archives,
                                              Head(rounds), TRUE)
              IN  /\ db' = [db EXCEPT !.files = rec.files,
                                      !.unfinished = Drop(@, {Head(rounds)})]
                  /\ archives' = rec.disk
                  /\ AfterCatchpoint(FALSE)
    /\ UNCHANGED <<envVars, txn, dataFiles, memVars, queue, dcc, caller,
                   retries, stream, obs>>

\* ------------------------------------------------------------------ pruning
\* SelectOldCatchpointFirstStageInfoRounds(maxRound)
SelectOldCatchpointFirstStageInfoRounds(maxRound) ==
    {a \in DOMAIN db.info : a <= maxRound}

\* The base round the pruning is relative to, and the lookback it uses.
PruneBase_OldBase == IF caller = "commit" THEN dcc.oldBase ELSE db.round
PruneBase == IF caller = "commit" THEN newBase(dcc) ELSE db.round
PruneLookback == IF caller = "commit" THEN cfg.catchpointLookback ELSE db.lookback

\* pruneFirstStageRecordsData, the last step of postCommitUnlocked and of
\* recoverFromCrash: remove the data files of the old first-stage rounds one
\* by one, then delete their rows; a failing step ends the pruning.
pruneFirstStageRecordsData ==
    /\ pc = "catchpoints" /\ rounds = <<>>
    /\ IF PruneLookback # 0 /\ PruneBase >= PruneLookback
       THEN LET old == SelectOldCatchpointFirstStageInfoRounds(
                           PruneBase - PruneLookback)
            IN  \E n \in 0..(Cardinality(old) + 1) :
                  \* n files are removed before a step fails; beyond
                  \* Cardinality(old) nothing fails
                  LET gone == Oldest(old, n)
                      err == n <= Cardinality(old)
                  IN  /\ (err /\ n = Cardinality(old)) => old # {}
                      /\ dataFiles' = Drop(dataFiles, gone)
                      /\ db' = IF err THEN db
                               ELSE [db EXCEPT !.info = Drop(@, old)]
                      /\ st' = [st EXCEPT !.pruned =
                                 [ err |-> err,
                                   old |-> old,
                                   rows |-> IF err THEN {} ELSE old,
                                   files |-> gone \cap DOMAIN dataFiles,
                                   unfinished |-> DOMAIN db.unfinished,
                                   lookback |-> PruneLookback,
                                   round |-> PruneBase ]]
                      /\ pc' = IF caller = "boot" /\ err THEN "down" ELSE "idle"
       ELSE /\ pc' = "idle"
            /\ UNCHANGED <<db, dataFiles, st>>
    /\ dcc' = None
    /\ UNCHANGED <<envVars, txn, archives, memVars, queue, caller, rounds,
                   retries, stream, obs>>

\* ------------------------------------------------------------- loadFromDisk
\* The account hashes of the store at round rnd, as the trie rebuild adds them.
AccountsAt(rnd) == IF rnd = 0 THEN {} ELSE {AccountHash(rnd)}

\* initializeHashes(rnd): when the persisted hash round is not the base round
\* the stored hashes are reset (and that is all when catchpoints are
\* disabled); the trie is made from the persisted committer, and rebuilt from
\* the accounts when its root is zero, which also records the hash round.
initializeHashes(rnd) ==
    LET stale == db.hashRound # rnd
        stored == IF stale THEN {} ELSE db.trie
    IN  IF stale /\ ~catchpointEnabled
        THEN [ mem |-> NilTrie, trie |-> stored, hashRound |-> db.hashRound ]
        ELSE IF stored = {}
        THEN [ mem |-> AccountsAt(rnd), trie |-> AccountsAt(rnd),
               hashRound |-> rnd ]
        ELSE [ mem |-> stored, trie |-> stored, hashRound |-> db.hashRound ]

\* ReadCatchpointStateString(CatchpointStateLastCatchpoint): the persisted
\* label; and a variant that reads none.
ReadLastCatchpoint_Empty == NoLabel
ReadLastCatchpoint == db.label

\* Variants that replay the first stage at every start, and at none.
FirstStageInterrupted_Always == TRUE
FirstStageInterrupted_Never == FALSE

\* finishFirstStageAfterCrash: a first stage was interrupted when the
\* WritingFirstStageInfo flag is still set.
FirstStageInterrupted == db.flag # 0

\* loadFromDisk up to the first step of recoverFromCrash: reset the in-memory
\* state, initialize the hashes, read the last label; then, when a first
\* stage was interrupted, delete the data file of the DB round and run
\* finishFirstStage for it; else go on to the unfinished catchpoints.
loadFromDisk ==
    /\ pc = "down"
    /\ LET h == initializeHashes(db.round)
       IN  /\ db' = [db EXCEPT !.trie = h.trie, !.hashRound = h.hashRound]
           /\ balancesTrie' = h.mem
    /\ cachedDBRound' = db.round
    /\ roundDigest' = <<>>
    /\ consensusVersion' = <<>>
    /\ catchpointDataWriting' = 0
    /\ catchpointDataSlowWriting' = Close(MakeChan)
    /\ reenableCatchpointsRound' = 0
    /\ lastCatchpointLabel' = ReadLastCatchpoint
    /\ caller' = "boot"
    /\ st' = NoSt
    /\ obs' = [obs EXCEPT !.produced = "none", !.offered = 0,
                          !.found = "none",
                          !.boot = [ flag |-> db.flag, replays |-> 0,
                                     unfinished |-> db.unfinished,
                                     reran |-> {}, cleared |-> {},
                                     noInfo |-> {},
                                     labelled |-> {} ]]
    /\ IF FirstStageInterrupted
       THEN /\ dataFiles' = Drop(dataFiles, {db.round})
            /\ pc' = "firstStage"
            /\ rounds' = <<>>
       ELSE /\ pc' = "catchpoints"
            /\ rounds' = IF db.lookback # 0 THEN SelectUnfinishedCatchpoints
                         ELSE <<>>
            /\ UNCHANGED dataFiles
    /\ UNCHANGED <<envVars, txn, archives, queue, dcc, retries, stream>>

\* The process dies: everything in memory is lost, an open transaction is
\* rolled back; the store and the files stay as they are.
Crash ==
    /\ pc # "down"
    /\ txn' = None
    /\ catchpointDataWriting' = 0
    /\ catchpointDataSlowWriting' = "closed"
    /\ balancesTrie' = NilTrie
    /\ roundDigest' = <<>>
    /\ consensusVersion' = <<>>
    /\ reenableCatchpointsRound' = 0
    /\ cachedDBRound' = 0
    /\ lastCatchpointLabel' = NoLabel
    /\ queue' = <<>>
    /\ dcc' = None
    /\ pc' = "down"
    /\ caller' = "boot"
    /\ rounds' = <<>>
    /\ st' = NoSt
    /\ retries' = 0
    /\ stream' = None
    /\ obs' = [ produced |-> "none", offered |-> 0, found |-> "none",
                cancelled |-> None, boot |-> None,
                made |-> obs.made, tampered |-> obs.tampered,
                highest |-> obs.highest,
                crashed |->
                  IF caller = "commit"
                     /\ \/ pc \in {"firstStage", "writing", "info"}
                        \/ pc = "postCommit" /\ dcc.catchpointFirstStage
                        \/ /\ pc = "catchpoints"
                           /\ dcc.catchpointFirstStage
                           /\ ~st.fsErr /\ ~st.cancelled /\ st.fc = None
                  THEN [ round |-> FirstStageRound,
                         info |-> FirstStageInfo(FirstStageProto,
                                     IF balancesTrie = NilTrie THEN db.trie
                                     ELSE balancesTrie,
                                     cfg.enableGeneratingCatchpointFiles) ]
                  ELSE IF caller = "boot" /\ pc \in {"firstStage", "writing", "info"}
                  THEN obs.crashed
                  ELSE None ]
    /\ UNCHANGED <<envVars, db, fsVars>>

\* ------------------------------------------------------ GetCatchpointStream
\* GetCatchpointStream(round): the file the registry names for the round, or
\* the file found at the round's path although the registry does not know it
\* (which is then recorded); ErrNoEntry when there is no file, removing the
\* registry row of a missing file.
GetCatchpointStream ==
    /\ pc # "down" /\ (caller = "commit" \/ pc = "idle")
    /\ \E round \in (1..MaxRound) \cup obs.made :
         IF round \in db.files
         THEN IF round \in DOMAIN archives
              THEN /\ stream' = [round |-> round, file |-> archives[round]]
                   /\ UNCHANGED <<db, archives>>
              ELSE LET rec == recordCatchpointFile(db.files, archives, round, FALSE)
                   IN  /\ db' = [db EXCEPT !.files = rec.files]
                       /\ archives' = rec.disk
                       /\ stream' = [ round |-> round, err |-> "ErrNoEntry" ]
         ELSE IF round \in DOMAIN archives
              THEN LET rec == recordCatchpointFile(db.files, archives, round, TRUE)
                   IN  /\ db' = [db EXCEPT !.files = rec.files]
                       /\ archives' = rec.disk
                       /\ stream' = [round |-> round, file |-> archives[round]]
              ELSE /\ stream' = [ round |-> round, err |-> "ErrNoEntry" ]
                   /\ UNCHANGED <<db, archives>>
    /\ UNCHANGED <<envVars, txn, dataFiles, memVars, ctlVars, obs>>

\* ------------------------------------------------------------ specification
Next ==
    \/ newBlock
    \/ produceCommittingTask
    \/ handleUnorderedCommit
    \/ prepareCommit
    \/ handlePrepareCommitError
    \/ commitRound
    \/ commitRoundError
    \/ TxCommit
    \/ TxFail
    \/ clearCommitRoundRetry
    \/ handleCommitError
    \/ postCommit
    \/ finishFirstStage
    \/ generateCatchpointData
    \/ recordFirstStageInfo
    \/ finishCatchpoint
    \/ repackCatchpoint
    \/ recordCatchpoint
    \/ pruneFirstStageRecordsData
    \/ loadFromDisk
    \/ Crash
    \/ GetCatchpointStream

Spec == Init /\ [][Next]_vars

\* ================================================================ properties
\* loadFromDisk has returned without error and nothing was committed since.
BootReturned == pc = "idle" /\ caller = "boot" /\ obs.boot # None

\* C1 (as stated): the catchpoint file GetCatchpointStream returns, and every
\* file the registry names, is an archive whose repacking completed.
C1_OnlyCompleteArchives ==
    /\ ("file" \in DOMAIN stream) => stream.file = "complete"
    /\ \A r \in db.files \cap DOMAIN archives : archives[r] = "complete"

\* C2 (as stated): when postCommitUnlocked has returned after a finishFirstStage
\* that failed, the sentinel catchpointDataWriting is 0.
C2_SentinelClearedAfterFailure ==
    (pc = "idle" /\ caller = "commit" /\ st.fsErr) => catchpointDataWriting = 0

\* The first-stage tasks produced and neither completed nor cancelled: those
\* waiting for the commit syncer and the one it is working on.
FirstStageInFlight ==
    Cardinality({i \in 1..Len(queue) : queue[i].catchpointFirstStage})
    + (IF dcc # None /\ pc \in {"commit", "tx", "failed", "postCommit",
                                "firstStage", "writing", "info"}
       THEN (IF dcc.catchpointFirstStage THEN 1 ELSE 0)
       ELSE 0)

\* C3 (as stated): at most one first-stage task is in flight: none is produced
\* between the production of one and the end or cancellation of its stage 1.
C3_OneFirstStageInFlight == FirstStageInFlight <= 1

\* C3 (amended): while the sentinel catchpointDataWriting is not 0,
\* produceCommittingTask produces no task.
C3_NoTaskWhileWriting ==
    [][catchpointDataWriting # 0 => Len(queue') <= Len(queue)]_vars

C3_Refused ==
    /\ obs.produced = "refused"
    /\ catchpointDataWriting # 0
    /\ pc \in {"commit", "tx", "postCommit", "firstStage", "writing"}

\* C4 (as stated): whenever the WritingFirstStageInfo flag is 0 and no first
\* stage is executing, the data file of a round exists iff its first-stage
\* info row exists.
C4_DataFileIffInfoRow ==
    (db.flag = 0 /\ pc \notin {"firstStage", "writing", "info"})
        => \A r \in Rounds : (r \in DOMAIN dataFiles) <=> (r \in DOMAIN db.info)

\* C5 (as stated): when finishCatchpoint of a round has returned without
\* error, the store holds no unfinished record of that round.
C5_NoUnfinishedAfterFinish ==
    (st.fc # None /\ ~st.fc.err) => st.fc.round \notin DOMAIN db.unfinished

\* C6 (as stated): the pruning deletes the row or the data file of an accounts
\* round only when the block round a lookback later is committed and has no
\* unfinished record.
C6_PruneKeepsPending ==
    st.pruned # None =>
        \A a \in st.pruned.rows \cup st.pruned.files :
            /\ a + st.pruned.lookback <= st.pruned.round
            /\ (a + st.pruned.lookback) \notin st.pruned.unfinished

\* C7 (as stated): when commitRound has returned without error, the hash
\* round it wrote is oldBase + offset and the trie root it wrote is the root
\* of the in-memory trie.
C7_HashRoundIsNewBase ==
    pc = "tx" => /\ txn.hashRound = newBase(dcc)
                 /\ RootHash(txn.trie) = RootHash(balancesTrie)

\* C7 (amended): when commitRound has returned without error and catchpoints
\* are enabled, the hash round it wrote is oldBase + offset and the trie root
\* it wrote is the root of the in-memory trie; with a catchpoint interval of 0
\* it wrote the hash round 0 and left the persisted trie alone.
C7_CommitRoundPersists ==
    pc = "tx" =>
        IF catchpointEnabled
        THEN /\ txn.hashRound = newBase(dcc)
             /\ RootHash(txn.trie) = RootHash(balancesTrie)
        ELSE /\ txn.hashRound = 0
             /\ txn.trie = db.trie

C7_TrieCommitted ==
    /\ pc = "tx" /\ catchpointEnabled
    /\ txn.trie # db.trie
    /\ txn.hashRound = newBase(dcc)

\* C8: when loadFromDisk returns without error, it has replayed the first
\* stage exactly once and the WritingFirstStageInfo flag is 0 if the flag was
\* set at the start, and it has replayed nothing if the flag was 0.
C8_ReplayIffFlagged ==
    BootReturned =>
        IF obs.boot.flag # 0
        THEN obs.boot.replays = 1 /\ db.flag = 0
        ELSE obs.boot.replays = 0

C8_Replayed ==
    BootReturned /\ obs.boot.flag # 0 /\ obs.boot.replays = 1 /\ db.flag = 0

\* C9: after a crash between the commit of a first-stage round and the end of
\* its first stage, a restart that returns without error leaves what the
\* uninterrupted first stage leaves: the flag is 0, the info row of the round
\* holds the same content, and its data file is there, complete, exactly when
\* files are generated.
C9_ReplayEqualsUninterrupted ==
    (BootReturned /\ obs.crashed # None) =>
        LET a == obs.crashed.round
        IN  /\ db.flag = 0
            /\ a \in DOMAIN db.info
            /\ db.info[a] = obs.crashed.info
            /\ IF cfg.enableGeneratingCatchpointFiles
               THEN a \in DOMAIN dataFiles /\ dataFiles[a] = "complete"
               ELSE a \notin DOMAIN dataFiles

C9_Recovered ==
    /\ BootReturned /\ obs.crashed # None
    /\ obs.boot.flag # 0
    /\ cfg.enableGeneratingCatchpointFiles
    /\ obs.crashed.round \in DOMAIN dataFiles

\* C10: when loadFromDisk returns without error, for every unfinished record
\* (r, h) found at the start the catchpoint file of r was removed and
\* finishCatchpoint was run for (r, h); and where the first-stage info of
\* r - lookback was missing, the record is deleted and neither a label nor a
\* file of r was made.
C10_RecoveryFinishesUnfinished ==
    (BootReturned /\ db.lookback # 0) =>
        \A r \in DOMAIN obs.boot.unfinished :
            /\ <<r, obs.boot.unfinished[r]>> \in obs.boot.reran
            /\ r \in obs.boot.cleared
            /\ r \in obs.boot.noInfo =>
                   /\ r \notin DOMAIN db.unfinished
                   /\ r \notin obs.boot.labelled
                   /\ r \notin DOMAIN archives

C10_RecoveredBoth ==
    /\ BootReturned
    /\ obs.boot.noInfo # {}
    /\ \E r \in DOMAIN obs.boot.unfinished : r \notin obs.boot.noInfo

\* --------------------------------------------------------- the repacking
CatchpointContentFileName == "content.msgpack"

\* protocol.Encode of the file header: its fields, in order.
Encode(header) == <<header.Version, header.BalancesRound, header.BlocksRound>>

\* io.ReadAtLeast(in, buf, min) on the data of the current tar entry: a
\* buffer shorter than min is refused; else the data, all that the entry has,
\* is read over the start of the buffer and what was there stays behind it.
ReadAtLeast(buf, data, min) ==
    IF Len(buf) < min
    THEN [ n |-> 0, err |-> TRUE, buf |-> buf ]
    ELSE [ n |-> Len(data), err |-> FALSE,
           buf |-> data \o SubSeq(buf, Len(data) + 1, Len(buf)) ]

\* One turn of the loop of doRepackCatchpoint after in.Next(): read the entry
\* into the buffer, write its header and the first Size bytes of the buffer.
CopyEntry_WholeBuffer(buf, entry) ==
    LET rd == ReadAtLeast(buf, entry.Bytes, entry.Size)
    IN  IF rd.err \/ rd.n # entry.Size
        THEN [ err |-> TRUE, buf |-> rd.buf, out |-> <<>> ]
        ELSE [ err |-> FALSE, buf |-> rd.buf,
               out |-> <<[ Name |-> entry.Name, Size |-> entry.Size,
                           Bytes |-> rd.buf ]>> ]

CopyEntry(buf, entry) ==
    LET rd == ReadAtLeast(buf, entry.Bytes, entry.Size)
    IN  IF rd.err \/ rd.n # entry.Size
        THEN [ err |-> TRUE, buf |-> rd.buf, out |-> <<>> ]
        ELSE [ err |-> FALSE, buf |-> rd.buf,
               out |-> <<[ Name |-> entry.Name, Size |-> entry.Size,
                           Bytes |-> SubSeq(rd.buf, 1, entry.Size) ]>> ]

\* The loop of doRepackCatchpoint, until the input ends or a turn fails.
RECURSIVE RepackEntries(_, _)
RepackEntries(buf, in) ==
    IF in = <<>> THEN [ err |-> FALSE, out |-> <<>> ]
    ELSE LET c == CopyEntry(buf, Head(in))
         IN  IF c.err THEN [ err |-> TRUE, out |-> <<>> ]
             ELSE LET rest == RepackEntries(c.buf, Tail(in))
                  IN  [ err |-> rest.err, out |-> c.out \o rest.out ]

\* doRepackCatchpoint: the encoded header goes out first as the content
\* entry; then, unless the context is cancelled, the entries of the input are
\* copied through one buffer of biggestChunkLen bytes.
doRepackCatchpoint(cancelled, header, biggestChunkLen, in) ==
    LET bytes == Encode(header)
        content == [ Name |-> CatchpointContentFileName, Size |-> Len(bytes),
                     Bytes |-> bytes ]
        buf == [i \in 1..biggestChunkLen |-> 0]
        rest == IF cancelled THEN [ err |-> TRUE, out |-> <<>> ]
                ELSE RepackEntries(buf, in)
    IN  [ err |-> rest.err, out |-> <<content>> \o rest.out ]

\* ------------------------------------------------- the deltas of the trie
\* What the trie hashes are made for: two accounts, a resource and a key.
TrieKeys ==
    << [ kind |-> "account", id |-> 1 ], [ kind |-> "account", id |-> 2 ],
       [ kind |-> "resource", id |-> 1 ], [ kind |-> "kv", id |-> 1 ] >>
KindCode(kind) == IF kind = "account" THEN 1 ELSE IF kind = "resource" THEN 2
                  ELSE 3

\* A variant whose hash leaves the address (or key) out.
HashBuilderV6_NoAddress(key, data) ==
    IF data = 0 THEN ZeroDigest ELSE 100 * KindCode(key.kind) + data

\* AccountHashBuilderV6, ResourcesHashBuilderV6 and KvHashBuilderV6: a digest
\* of the kind, the address or key, and the encoded data. The empty value has
\* none: its delete or add is skipped.
HashBuilderV6(key, data) ==
    IF data = 0 THEN ZeroDigest
    ELSE 100 * KindCode(key.kind) + 10 * key.id + data

\* The deletes and adds accountsUpdateBalances makes for the deltas, in its
\* order: accounts, resources, keys. A key that came and went, or changed
\* back, within the span is passed over.
RECURSIVE DeltaDigests(_)
DeltaDigests(deltas) ==
    IF deltas = <<>> THEN <<>>
    ELSE LET d == Head(deltas)
         IN  IF d.key.kind = "kv" /\ d.old = d.new
             THEN DeltaDigests(Tail(deltas))
             ELSE <<[ old |-> HashBuilderV6(d.key, d.old),
                      new |-> HashBuilderV6(d.key, d.new) ]>>
                  \o DeltaDigests(Tail(deltas))

\* ============================================= the pure functions on their own
\* Everything but the call.
trackerVars == <<cfg, latest, db, txn, dataFiles, archives,
                 catchpointDataWriting, catchpointDataSlowWriting, balancesTrie,
                 roundDigest, consensusVersion, reenableCatchpointsRound,
                 cachedDBRound, lastCatchpointLabel, queue, dcc, pc, caller,
                 rounds, st, retries, stream, obs, phonebook>>

\* The arguments calculateFirstStageRounds is called with, the example of the
\* 100/320 chain among them.
FirstStageArgs ==
    [ oldBase : 0..MaxBase, offset : 0..MaxOffset, reenable : 0..MaxOffset,
      interval : 1..MaxInterval, lookback : 0..MaxLookback ]
    \cup {[ oldBase |-> 0, offset |-> 500, reenable |-> 200,
            interval |-> 100, lookback |-> 320 ]}

\* The arguments of calculateCatchpointRounds(min, max, interval), its two
\* examples among them, and the ranges its method is called with.
CatchpointRoundsArgs ==
    [ min : 0..MaxOffset, max : 0..(MaxBase + MaxOffset),
      interval : 1..MaxInterval ]
    \cup {[ min |-> 11, max |-> 19, interval |-> 10 ],
          [ min |-> 10, max |-> 30, interval |-> 10 ]}
CommitRanges == [ oldBase : 0..MaxBase, offset : 1..MaxOffset ]

\* The entries of a stage-1 data file, and the arguments of
\* doRepackCatchpoint.
ChunkBytes == UNION { [1..n -> {0, 1}] : n \in 0..MaxChunkLen }
Entries ==
    { [ Name |-> name, Size |-> Len(bytes), Bytes |-> bytes ] :
        name \in {"balances.1.msgpack", "balances.2.msgpack"},
        bytes \in ChunkBytes }
RepackArgs ==
    [ cancelled : BOOLEAN,
      header : [ Version : {CatchpointFileVersionV7}, BalancesRound : {1},
                 BlocksRound : {2} ],
      biggestChunkLen : 0..MaxChunkLen,
      in : UNION { [1..n -> Entries] : n \in 0..MaxEntries } ]

\* The arguments of accountsUpdateBalances: the data every key has in the
\* store (what the trie holds the hashes of), the data after the rounds, and
\* the keys the rounds touched: all of them, or all but the second account.
BalancesArgs ==
    [ before : [1..Len(TrieKeys) -> 0..MaxData],
      after : [1..Len(TrieKeys) -> 0..MaxData],
      touched : {1..Len(TrieKeys), (1..Len(TrieKeys)) \ {2}} ]
TrieOf(data) ==
    { HashBuilderV6(TrieKeys[i], data[i]) : i \in 1..Len(TrieKeys) }
        \ {ZeroDigest}
DeltasOf(touched, old, new) ==
    LET F[i \in 0..Len(TrieKeys)] ==
            IF i = 0 THEN <<>>
            ELSE IF i \in touched
            THEN Append(F[i - 1], [ key |-> TrieKeys[i], old |-> old[i],
                                    new |-> new[i] ])
            ELSE F[i - 1]
    IN  F[Len(TrieKeys)]

\* The protocol q has every catchpoint feature of the protocol p: protocols
\* of later rounds keep the features of earlier ones.
KeepsFeatures(p, q) ==
    /\ EnableCatchpointsWithSPContexts(p) => EnableCatchpointsWithSPContexts(q)
    /\ EnableCatchpointsWithOnlineAccounts(p) =>
           EnableCatchpointsWithOnlineAccounts(q)

\* The arguments of createCatchpoint: the protocol of the first-stage round
\* that made the info and the data file, the block round and its protocol,
\* and whether files are generated.
CreateCatchpointArgs ==
    { a \in [ firstStageProto : Protocols, blockProto : Protocols,
              round : 1..MaxRound, generating : BOOLEAN ] :
        KeepsFeatures(a.firstStageProto, a.blockProto) }

Call(op, in) == [ op |-> op, in |-> in, out |-> None, done |-> FALSE ]

PureCalls ==
    { Call("calculateFirstStageRounds", a) : a \in FirstStageArgs }
    \cup { Call("calculateCatchpointRoundsIn", a) : a \in CatchpointRoundsArgs }
    \cup { Call("calculateCatchpointRounds", d) : d \in CommitRanges }
    \cup { Call("createCatchpoint", a) : a \in CreateCatchpointArgs }
    \cup { Call("doRepackCatchpoint", a) : a \in RepackArgs }
    \cup { Call("accountsUpdateBalances", a) : a \in BalancesArgs }

\* The configurations the functions that read one are called under.
PureConfigs ==
    [ catchpointInterval : 0..MaxInterval,
      enableGeneratingCatchpointFiles : {TRUE},
      catchpointFileHistoryLength : {-1},
      catchpointLookback : 0..MaxLookback,
      proto : {"v7"} ]

PureInit ==
    /\ call \in PureCalls
    /\ cfg \in IF call.op = "calculateCatchpointRounds" THEN PureConfigs
               ELSE {c \in PureConfigs : c.catchpointInterval = 2
                                         /\ c.catchpointLookback = 1}
    /\ Constructed
    /\ phonebook = None

CallCalculateFirstStageRounds ==
    /\ call.op = "calculateFirstStageRounds" /\ ~call.done
    /\ call' = [call EXCEPT !.done = TRUE, !.out =
                  calculateFirstStageRounds(call.in.oldBase, call.in.offset,
                      call.in.reenable, call.in.interval, call.in.lookback)]
    /\ UNCHANGED trackerVars

CallCalculateCatchpointRoundsIn ==
    /\ call.op = "calculateCatchpointRoundsIn" /\ ~call.done
    /\ call' = [call EXCEPT !.done = TRUE, !.out =
                  calculateCatchpointRoundsIn(call.in.min, call.in.max,
                                              call.in.interval)]
    /\ UNCHANGED trackerVars

CallCalculateCatchpointRounds ==
    /\ call.op = "calculateCatchpointRounds" /\ ~call.done
    /\ call' = [call EXCEPT !.done = TRUE,
                            !.out = calculateCatchpointRounds(call.in)]
    /\ UNCHANGED trackerVars

CallCreateCatchpoint ==
    /\ call.op = "createCatchpoint" /\ ~call.done
    /\ call' = [call EXCEPT !.done = TRUE, !.out =
                  createCatchpoint(call.in.round,
                      FirstStageInfo(call.in.firstStageProto, balancesTrie, TRUE),
                      BlockDigest(call.in.round), call.in.blockProto,
                      call.in.generating,
                      WritesSPVerificationContext(call.in.firstStageProto))]
    /\ UNCHANGED trackerVars

CallDoRepackCatchpoint ==
    /\ call.op = "doRepackCatchpoint" /\ ~call.done
    /\ call' = [call EXCEPT !.done = TRUE, !.out =
                  doRepackCatchpoint(call.in.cancelled, call.in.header,
                                     call.in.biggestChunkLen, call.in.in)]
    /\ UNCHANGED trackerVars

\* accountsUpdateBalances on the deltas, then on the deltas with old and new
\* swapped; and the deltas applied a second time to the trie that already
\* holds them, where deletes find nothing and adds find their digest.
CallAccountsUpdateBalances ==
    /\ call.op = "accountsUpdateBalances" /\ ~call.done
    /\ LET a == call.in
           applied == accountsUpdateBalances(TrieOf(a.before),
                          DeltaDigests(DeltasOf(a.touched, a.before, a.after)),
                          0)
           inverted == accountsUpdateBalances(applied.trie,
                          DeltaDigests(DeltasOf(a.touched, a.after, a.before)),
                          0)
           replayed == accountsUpdateBalances(applied.trie,
                          DeltaDigests(DeltasOf(a.touched, a.before, a.after)),
                          0)
       IN  call' = [call EXCEPT !.done = TRUE,
                       !.out = [ applied |-> applied.trie,
                                 changes |-> applied.accumulatedChanges,
                                 logged |-> applied.logged,
                                 inverted |-> inverted.trie,
                                 replayed |-> [ trie |-> replayed.trie,
                                                logged |-> replayed.logged,
                                                err |-> replayed.err ] ]]
    /\ UNCHANGED trackerVars

PureNext ==
    \/ CallAccountsUpdateBalances
    \/ CallDoRepackCatchpoint
    \/ CallCreateCatchpoint
    \/ CallCalculateFirstStageRounds
    \/ CallCalculateCatchpointRoundsIn
    \/ CallCalculateCatchpointRounds

PureSpec == PureInit /\ [][PureNext]_vars

Max(S) == CHOOSE x \in S : \A y \in S : y <= x

\* The first-stage rounds at or after lo, and at or before hi, next to them.
FirstAnchorFrom(lo, interval, lookback) ==
    Min({r \in lo..(lo + interval - 1) : (r + lookback) % interval = 0})
LastAnchorUpTo(hi, interval, lookback) ==
    Max({r \in (hi - interval + 1)..hi : (r + lookback) % interval = 0})

\* C11: calculateFirstStageRounds agrees with the reference: with first the
\* smallest first-stage round at or after max(oldBase+1, reenable-lookback)
\* and last the largest at or before oldBase+offset, it reports first <= last,
\* first < last, and the offset last - oldBase (the offered one when there is
\* no such round); it reports nothing when catchpoints are not re-enabled;
\* and on (0, 500, 200, 100, 320) it narrows the offset to 480.
C11_FirstStageRoundsAgree ==
    (call.op = "calculateFirstStageRounds" /\ call.done) =>
        LET a == call.in
            lo == IF a.reenable - a.lookback > a.oldBase + 1
                  THEN a.reenable - a.lookback ELSE a.oldBase + 1
            first == FirstAnchorFrom(lo, a.interval, a.lookback)
            last == LastAnchorUpTo(a.oldBase + a.offset, a.interval, a.lookback)
        IN  /\ a.reenable = 0 =>
                call.out = [has |-> FALSE, multi |-> FALSE, newOffset |-> a.offset]
            /\ a.reenable > 0 =>
                /\ call.out.has = (first <= last)
                /\ call.out.multi = (first < last)
                /\ call.out.newOffset =
                       IF first <= last THEN last - a.oldBase ELSE a.offset
            /\ a.interval = 100 =>
                /\ first = 80 /\ last = 480
                /\ call.out = [has |-> TRUE, multi |-> TRUE, newOffset |-> 480]

C11_SeveralAfterReenable ==
    /\ call.op = "calculateFirstStageRounds" /\ call.done
    /\ call.out.multi
    /\ call.in.reenable - call.in.lookback > call.in.oldBase + 1

\* A first-stage round: an accounts round a lookback before a catchpoint round.
IsFirstStageRound(r) ==
    (r + cfg.catchpointLookback) % cfg.catchpointInterval = 0

\* C12: the base a produced first-stage task commits to, oldBase + offset, is
\* a first-stage round, and the latest one in the range that was offered.
C12_CommitsToLatestAnchor ==
    (obs.produced = "task" /\ obs.offered > 0 /\ queue # <<>>) =>
        LET d == queue[Len(queue)]
        IN  d.catchpointFirstStage =>
              /\ IsFirstStageRound(newBase(d))
              /\ newBase(d) <= d.oldBase + obs.offered
              /\ \A r \in (newBase(d) + 1)..(d.oldBase + obs.offered) :
                     ~IsFirstStageRound(r)

C12_NarrowedTask ==
    /\ obs.produced = "task" /\ queue # <<>>
    /\ queue[Len(queue)].catchpointFirstStage
    /\ newBase(queue[Len(queue)]) < queue[Len(queue)].oldBase + obs.offered

\* C13: calculateCatchpointRounds(min, max, interval) returns the multiples of
\* interval in [min, max] in ascending order, [] for (11, 19, 10) and
\* [10, 20, 30] for (10, 30, 10); and with a catchpoint interval above 0 the
\* stage-2 rounds of a commit range are the multiples of the interval in
\* (oldBase, oldBase + offset] that are at least lookback + 1, ascending.
C13_CatchpointRoundsAreMultiples ==
    /\ (call.op = "calculateCatchpointRoundsIn" /\ call.done) =>
         /\ call.out = SortedSeq({m \in call.in.min..call.in.max :
                                     m % call.in.interval = 0})
         /\ call.in = [min |-> 11, max |-> 19, interval |-> 10]
                => call.out = <<>>
         /\ call.in = [min |-> 10, max |-> 30, interval |-> 10]
                => call.out = <<10, 20, 30>>
    /\ (call.op = "calculateCatchpointRounds" /\ call.done
             /\ cfg.catchpointInterval > 0) =>
         call.out = SortedSeq(
             {m \in (call.in.oldBase + 1)..(call.in.oldBase + call.in.offset) :
                 /\ m % cfg.catchpointInterval = 0
                 /\ m >= cfg.catchpointLookback + 1})

C13_LookbackCutsRange ==
    /\ call.op = "calculateCatchpointRounds" /\ call.done
    /\ Len(call.out) >= 2
    /\ \E m \in (call.in.oldBase + 1)..(call.in.oldBase + call.in.offset) :
           m % cfg.catchpointInterval = 0 /\ m < cfg.catchpointLookback + 1

\* C14: with a catchpoint interval of 0 no first or second stage is scheduled
\* or performed: every task produced is the offered range with neither stage
\* set, calculateCatchpointRounds of the range committed is empty, no
\* unfinished record is inserted, the WritingFirstStageInfo flag is never
\* raised and the sentinel stays 0.
C14_NothingScheduledWithoutInterval ==
    cfg.catchpointInterval = 0 =>
        /\ \A i \in 1..Len(queue) :
               ~queue[i].catchpointFirstStage /\ ~queue[i].catchpointSecondStage
        /\ (obs.produced = "task" /\ obs.offered > 0 /\ queue # <<>>) =>
               queue[Len(queue)].offset = obs.offered
        /\ dcc # None =>
               /\ ~dcc.catchpointFirstStage /\ ~dcc.catchpointSecondStage
               /\ calculateCatchpointRounds(dcc) = <<>>
        /\ txn # None => (txn.flag = 0 /\ DOMAIN txn.unfinished = {})
        /\ db.flag = 0
        /\ DOMAIN db.unfinished = {}
        /\ DOMAIN db.info = {}
        /\ catchpointDataWriting = 0
        /\ rounds = <<>>
        /\ pc \notin {"firstStage", "writing", "info", "repack", "record"}
        /\ DOMAIN dataFiles = {} /\ DOMAIN archives = {}

C14_CommittedWithoutInterval ==
    /\ cfg.catchpointInterval = 0
    /\ db.round >= 2
    /\ pc = "tx" /\ newBase(dcc) = MaxRound

\* The first-stage rounds of the range offered for the task produced last.
OfferedAnchors ==
    LET d == queue[Len(queue)]
    IN  {r \in (d.oldBase + 1)..(d.oldBase + obs.offered) :
            /\ IsFirstStageRound(r)
            /\ r >= reenableCatchpointsRound - cfg.catchpointLookback}

\* A first-stage task has just been produced.
FirstStageTaskProduced ==
    /\ obs.produced = "task" /\ obs.offered > 0 /\ queue # <<>>
    /\ queue[Len(queue)].catchpointFirstStage

\* The first-stage rounds a committed first-stage range skipped have neither
\* a data file nor an info row.
SkippedAnchorsLeftOut ==
    (dcc # None /\ pc # "commit") =>
        (dcc.catchpointFirstStage =>
            \A r \in (dcc.oldBase + 1)..(newBase(dcc) - 1) :
                r \notin DOMAIN dataFiles /\ r \notin DOMAIN db.info)

\* C15 (as stated): with two or more first-stage rounds in the offered range
\* the task is narrowed to the latest and the slow-writing channel is closed
\* for it, and only the latest gets a data file and an info row; with exactly
\* one first-stage round in the range the channel is left open.
C15_SlowWritingFollowsAnchors ==
    /\ FirstStageTaskProduced =>
         /\ Cardinality(OfferedAnchors) >= 2 =>
              /\ newBase(queue[Len(queue)]) = Max(OfferedAnchors)
              /\ catchpointDataSlowWriting = "closed"
         /\ Cardinality(OfferedAnchors) = 1 =>
              catchpointDataSlowWriting = "open"
    /\ SkippedAnchorsLeftOut

\* C15 (amended): with two or more first-stage rounds in the offered range
\* the task is narrowed to the latest, and the skipped ones get neither a data
\* file nor an info row; on a node that generates catchpoint files the
\* slow-writing channel is closed for a task of two or more first-stage
\* rounds and open for a task of exactly one; on a node that does not, the
\* channel is never opened.
C15_SlowWritingWhenGenerating ==
    /\ FirstStageTaskProduced =>
         /\ Cardinality(OfferedAnchors) >= 2 =>
              newBase(queue[Len(queue)]) = Max(OfferedAnchors)
         /\ cfg.enableGeneratingCatchpointFiles =>
              /\ Cardinality(OfferedAnchors) >= 2 =>
                     catchpointDataSlowWriting = "closed"
              /\ Cardinality(OfferedAnchors) = 1 =>
                     catchpointDataSlowWriting = "open"
    /\ ~cfg.enableGeneratingCatchpointFiles =>
         catchpointDataSlowWriting = "closed"
    /\ SkippedAnchorsLeftOut

C15_TwoAnchorsOffered ==
    /\ FirstStageTaskProduced
    /\ cfg.enableGeneratingCatchpointFiles
    /\ Cardinality(OfferedAnchors) >= 2
    /\ catchpointDataSlowWriting = "closed"

\* ================================================ the file history on its own
\* The history lengths a node is configured with: unlimited, none, 1 and 2.
HistoryLengths == {-1, 0, 1, 2}
FileConfigs ==
    [ catchpointInterval : Intervals,
      enableGeneratingCatchpointFiles : {TRUE},
      catchpointFileHistoryLength : HistoryLengths,
      catchpointLookback : Lookbacks,
      proto : {"v7"} ]

FilesInit ==
    /\ cfg \in FileConfigs
    /\ Constructed
    /\ call = None
    /\ phonebook = None

\* The end of a createCatchpoint that succeeds, for the next catchpoint
\* round: the repacked archive is on disk and the final transaction records
\* it with recordCatchpointFile.
ProduceArchive ==
    /\ pc = "idle"
    /\ Cardinality(obs.made) < MaxArchives
    /\ LET round == cfg.catchpointInterval * (Cardinality(obs.made) + 1)
           rec == recordCatchpointFile(db.files, Put(archives, round, "complete"),
                                       round, TRUE)
       IN  /\ db' = [db EXCEPT !.files = rec.files]
           /\ archives' = rec.disk
           /\ obs' = [obs EXCEPT !.made = @ \cup {round}]
    /\ UNCHANGED <<envVars, txn, dataFiles, memVars, ctlVars, stream>>

\* A catchpoint file disappears from the disk (removed by hand, a lost volume).
LoseArchive ==
    /\ \E round \in DOMAIN archives :
         archives' = Drop(archives, {round})
    /\ obs' = [obs EXCEPT !.tampered = TRUE]
    /\ UNCHANGED <<envVars, db, txn, dataFiles, memVars, ctlVars, stream>>

\* initialize: the node is started again with another history length.
initialize ==
    /\ pc = "down"
    /\ \E k \in HistoryLengths \ {cfg.catchpointFileHistoryLength} :
         cfg' = [cfg EXCEPT !.catchpointFileHistoryLength = k]
    /\ obs' = [obs EXCEPT !.tampered = TRUE]
    /\ UNCHANGED <<latest, call, phonebook, db, txn, fsVars, memVars, ctlVars, stream>>

FilesNext ==
    \/ initialize
    \/ loadFromDisk
    \/ pruneFirstStageRecordsData
    \/ ProduceArchive
    \/ LoseArchive
    \/ GetCatchpointStream
    \/ Crash

FilesSpec == FilesInit /\ [][FilesNext]_vars

\* The n most recent of a set of rounds.
MostRecent(S, n) == {r \in S : Cardinality({q \in S : q > r}) < n}

\* C16: with a history length k >= 1, after archives were made for increasing
\* rounds, the min(k, n) most recent are the ones on disk and the ones in the
\* registry; with k = 0 none is on disk or in the registry; with k = -1 all
\* are.
C16_HistoryKeepsMostRecent ==
    ~obs.tampered =>
        LET k == cfg.catchpointFileHistoryLength
            kept == IF k = -1 THEN obs.made ELSE MostRecent(obs.made, k)
        IN  db.files = kept /\ DOMAIN archives = kept

C16_TwoOfFive ==
    /\ ~obs.tampered
    /\ cfg.catchpointFileHistoryLength = 2
    /\ Cardinality(obs.made) = 5
    /\ Cardinality(db.files) = 2

\* A call of GetCatchpointStream that returned: only it sets the result.
StreamReturned == stream' # stream /\ stream' # None

\* C17: GetCatchpointStream(r) with a registry row for r and no file on disk
\* returns ErrNoEntry and removes the row of r in that call, whatever the
\* history length; with neither row nor file it returns ErrNoEntry and
\* changes nothing.
C17_MissingFileRowRemoved ==
    [][StreamReturned =>
        LET r == stream'.round
        IN  /\ (r \in db.files /\ r \notin DOMAIN archives) =>
                  /\ "err" \in DOMAIN stream'
                  /\ r \notin db'.files
            /\ (r \notin db.files /\ r \notin DOMAIN archives) =>
                  /\ "err" \in DOMAIN stream'
                  /\ db' = db
                  /\ archives' = archives]_vars

\* The same with the row removed only when the node keeps a file history.
C17_RowRemovedWithHistory ==
    [][StreamReturned =>
        LET r == stream'.round
        IN  /\ (/\ r \in db.files
                /\ r \notin DOMAIN archives
                /\ cfg.catchpointFileHistoryLength # 0) =>
                  /\ "err" \in DOMAIN stream'
                  /\ r \notin db'.files
            /\ (r \notin db.files /\ r \notin DOMAIN archives) =>
                  /\ "err" \in DOMAIN stream'
                  /\ db' = db
                  /\ archives' = archives]_vars

\* The label is the one made at round R from the state of accounts round
\* R - catchpointLookback.
LabelOfAccountsRound(label) ==
    label # NoLabel =>
        LET accountsRound == label[2] - cfg.catchpointLookback
        IN  /\ label[4] = RootHash(AccountsAt(accountsRound))
            /\ label[5] = AccountsTotals(accountsRound)

\* Stage 2 of a round is about to run.
SecondStageAttempted == pc = "catchpoints" /\ rounds # <<>>

\* C18: a catchpoint of block round R is built from the trie hash and totals
\* of accounts round R - catchpointLookback, and the first-stage info of that
\* round is recorded when stage 2 of R is attempted.
C18_BuiltFromRecordedAnchor ==
    /\ LabelOfAccountsRound(lastCatchpointLabel)
    /\ LabelOfAccountsRound(db.label)
    /\ SecondStageAttempted =>
          Head(rounds) - cfg.catchpointLookback \in DOMAIN db.info

\* The same, with stage 2 building nothing when the info of the accounts
\* round is not recorded: a label is written only by a stage 2 of its round
\* that finds the info of round R - catchpointLookback, and a stage 2 that
\* does not find it writes no label and leaves no new archive.
C18_BuiltFromAnchorOrNothing ==
    /\ [](/\ LabelOfAccountsRound(lastCatchpointLabel)
          /\ LabelOfAccountsRound(db.label)
          /\ \A r \in DOMAIN db.info :
                /\ db.info[r].TrieBalancesHash = RootHash(AccountsAt(r))
                /\ db.info[r].Totals = AccountsTotals(r))
    /\ [][/\ db'.label # db.label =>
                /\ SecondStageAttempted
                /\ db'.label[2] = Head(rounds)
                /\ LET accountsRound == Head(rounds) - cfg.catchpointLookback
                   IN  /\ accountsRound \in DOMAIN db.info
                       /\ db'.label[4] = db.info[accountsRound].TrieBalancesHash
                       /\ db'.label[5] = db.info[accountsRound].Totals
          /\ (/\ SecondStageAttempted
              /\ Head(rounds) - cfg.catchpointLookback \notin DOMAIN db.info
              /\ rounds' # rounds) =>
                /\ db'.label = db.label
                /\ DOMAIN archives' \subseteq DOMAIN archives]_vars

\* Stage 2 of round 2 made its label in the commit whose first stage recorded
\* round 3.
C18_BothInOneCommit ==
    /\ caller = "commit" /\ pc = "catchpoints"
    /\ dcc.oldBase = 1 /\ db.round = 3
    /\ 3 \in DOMAIN db.info /\ 1 \in DOMAIN db.info
    /\ st.fc # None /\ st.fc.round = 2 /\ ~st.fc.err
    /\ db.label # NoLabel /\ db.label[2] = 2

\* C19: the version of label and file is decided by the two flags of the
\* block's protocol: V8 with online accounts and state proof contexts, V7 with
\* state proof contexts only, V6 with neither, and then the archive has no
\* state proof context chunk; with online accounts and without state proof
\* contexts createCatchpoint fails with no label and no file.
C19_VersionFollowsFlags ==
    (call.op = "createCatchpoint" /\ call.done) =>
        LET online == EnableCatchpointsWithOnlineAccounts(call.in.blockProto)
            contexts == EnableCatchpointsWithSPContexts(call.in.blockProto)
            out == call.out
            labelled(v) == /\ ~out.err
                           /\ out.version = v
                           /\ out.label # NoLabel /\ out.label[1] = v
                           /\ call.in.generating => (out.file /\ out.header = v)
        IN  /\ (online /\ contexts) => labelled(CatchpointFileVersionV8)
            /\ (~online /\ contexts) => labelled(CatchpointFileVersionV7)
            /\ (~online /\ ~contexts) =>
                  labelled(CatchpointFileVersionV6) /\ ~out.spChunk
            /\ (online /\ ~contexts) =>
                  out.err /\ out.label = NoLabel /\ ~out.file

C19_RefusedVersion ==
    /\ call.op = "createCatchpoint" /\ call.done
    /\ call.out.err
    /\ call.in.generating

C19_LegacyVersion ==
    /\ call.op = "createCatchpoint" /\ call.done
    /\ call.out.version = CatchpointFileVersionV6
    /\ call.out.file

\* The input of a repacking that is not cancelled has no entry larger than
\* biggestChunkLen.
RepackedWithinChunkLen ==
    /\ call.op = "doRepackCatchpoint" /\ call.done
    /\ ~call.in.cancelled
    /\ \A i \in 1..Len(call.in.in) :
          call.in.in[i].Size <= call.in.biggestChunkLen

\* C20: repacking entries no larger than biggestChunkLen succeeds, and its
\* output is the content.msgpack entry with the encoded header followed by
\* exactly the input entries: same names, sizes and bytes, in the same order,
\* none dropped or duplicated.
C20_RepackPreservesEntries ==
    RepackedWithinChunkLen =>
        /\ ~call.out.err
        /\ Len(call.out.out) = Len(call.in.in) + 1
        /\ call.out.out[1].Name = "content.msgpack"
        /\ call.out.out[1].Bytes = Encode(call.in.header)
        /\ call.out.out[1].Size = Len(call.out.out[1].Bytes)
        /\ \A i \in 1..Len(call.in.in) :
              /\ call.out.out[i + 1].Name = call.in.in[i].Name
              /\ call.out.out[i + 1].Size = call.in.in[i].Size
              /\ call.out.out[i + 1].Bytes = call.in.in[i].Bytes

\* Three entries were repacked, a long one before a shorter one of another
\* name, through a buffer longer than the shorter.
C20_ShortAfterLong ==
    /\ RepackedWithinChunkLen
    /\ Len(call.in.in) = 3
    /\ call.in.in[1].Size = 2 /\ call.in.in[1].Bytes = <<1, 1>>
    /\ call.in.in[2].Size = 1 /\ call.in.in[2].Name # call.in.in[1].Name
    /\ call.in.in[3].Size = 0
    /\ ~call.out.err

\* C21: when generateCatchpointData ended by an error or by cancellation, no
\* data file of its accounts round is on disk.
C21_AbortLeavesNoDataFile ==
    (st.gen # None /\ st.gen.end # "done") =>
        st.gen.round \notin DOMAIN dataFiles

\* The same for the ends after which the writer is aborted.
C21_AbortedWriterLeavesNoDataFile ==
    (st.gen # None /\ st.gen.end \in {"error", "cancel"}) =>
        st.gen.round \notin DOMAIN dataFiles

\* The last finishCatchpoint ended with the error of repackCatchpoint.
RepackFailed == st.fc # None /\ st.fc.err /\ st.fc.at = "repack"

\* C22: when repackCatchpoint returned an error, no output archive of the
\* round is left on disk and no registry row names it.
C22_RepackFailureCleansUp ==
    RepackFailed =>
        /\ st.fc.round \notin DOMAIN archives
        /\ st.fc.round \notin db.files

\* C23: applying deltas to the trie of the hashes they replace, and then the
\* same deltas with old and new swapped, gives back the digests, and so the
\* root hash, the trie had.
C23_InvertedDeltasRestoreTrie ==
    (call.op = "accountsUpdateBalances" /\ call.done) =>
        /\ call.out.inverted = TrieOf(call.in.before)
        /\ RootHash(call.out.inverted) = RootHash(TrieOf(call.in.before))

\* Deltas of an account, the resource and the key were applied: one created,
\* one changed, one deleted, next to an account left alone.
C23_AllKindsChanged ==
    /\ call.op = "accountsUpdateBalances" /\ call.done
    /\ call.in.touched = {1, 3, 4}
    /\ call.in.before[1] = 0 /\ call.in.after[1] = 1
    /\ call.in.before[3] = 1 /\ call.in.after[3] = 2
    /\ call.in.before[4] = 2 /\ call.in.after[4] = 0
    /\ call.in.before[2] = 1
    /\ call.out.applied # TrieOf(call.in.before)
    /\ call.out.changes = 4

\* The first-stage rounds older than the pruning point of the last pruning.
OlderThanPruningPoint ==
    {a \in 0..MaxRound : a < db.round - cfg.catchpointLookback}

\* C24: after the pruning at the end of postCommitUnlocked or of the boot
\* recovery, no first-stage info row and no data file of a round older than
\* newBase - catchpointLookback remains, also when a removal failed part-way.
C24_PrunedFromTableAndDisk ==
    (st.pruned # None /\ pc = "idle") =>
        \A a \in OlderThanPruningPoint :
            a \notin DOMAIN db.info /\ a \notin DOMAIN dataFiles

\* The same for a pruning that returned no error and the data files of the
\* rounds that had a row; a pruning that failed at a removal has deleted no
\* row, and the files it removed before are gone.
C24_PrunedUnlessRemovalFails ==
    (st.pruned # None /\ pc = "idle") =>
        /\ ~st.pruned.err =>
              \A a \in OlderThanPruningPoint :
                  /\ a \notin DOMAIN db.info
                  /\ a \in st.pruned.old => a \notin DOMAIN dataFiles
        /\ st.pruned.err =>
              /\ st.pruned.old # {}
              /\ st.pruned.old \subseteq DOMAIN db.info
              /\ st.pruned.files \cap DOMAIN dataFiles = {}

\* A pruning without error deleted the row of round 1 and removed its file.
C24_RowAndFilePruned ==
    /\ st.pruned # None /\ pc = "idle" /\ caller = "commit"
    /\ ~st.pruned.err
    /\ 1 \in st.pruned.rows /\ 1 \in st.pruned.files
    /\ 1 \in OlderThanPruningPoint

\* The tracker is loaded and no createCatchpoint is under way.
Loaded == pc # "down"

\* C25: once loadFromDisk has run, and after every createCatchpoint, the label
\* in memory is the one persisted in the store, and when loadFromDisk or
\* postCommitUnlocked has returned it is the label of the highest block round
\* a stage 2 has made a label of.
C25_LabelAlignedAndHighest ==
    /\ Loaded => lastCatchpointLabel = db.label
    /\ (pc = "idle" /\ db.label # NoLabel) => db.label[2] = obs.highest

\* The alignment, with the label being the one the last stage 2 that wrote a
\* label wrote: the persisted label changes only in a stage 2, to a label of
\* its round, and the label in memory with it.
C25_LabelAligned ==
    /\ [](Loaded => lastCatchpointLabel = db.label)
    /\ [][db'.label # db.label =>
            /\ SecondStageAttempted
            /\ db'.label[2] = Head(rounds)
            /\ lastCatchpointLabel' = db'.label]_vars

\* A stage 2 has made a label and the tracker was started again since.
C25_LabelReloaded ==
    /\ pc = "idle" /\ caller = "boot"
    /\ lastCatchpointLabel # NoLabel
    /\ lastCatchpointLabel[2] = obs.highest

\* The first-stage rounds of the range a call offers, from the state it is
\* made in.
AnchorsOffered(offset) ==
    {r \in (cachedDBRound + 1)..(cachedDBRound + offset) :
        /\ IsFirstStageRound(r)
        /\ reenableCatchpointsRound # 0
        /\ r >= reenableCatchpointsRound - cfg.catchpointLookback}

\* A call of produceCommittingTask returned nil.
TaskRefused ==
    /\ obs'.produced = "refused" /\ obs'.offered > 0
    /\ pc' = pc
    /\ \/ obs'.produced # obs.produced
       \/ obs'.offered # obs.offered
       \/ catchpointDataSlowWriting' # catchpointDataSlowWriting

\* C26: while the sentinel is not 0, produceCommittingTask returns no task; it
\* closes the slow-writing channel when the offered range has a first-stage
\* round and leaves the channel as it was when the range has none.
C26_BusyWriterRefusesAndSpeedsUp ==
    [][/\ Len(queue') > Len(queue) => catchpointDataWriting = 0
       /\ TaskRefused =>
            /\ catchpointDataWriting # 0
            /\ queue' = queue
            /\ AnchorsOffered(obs'.offered) # {} =>
                  catchpointDataSlowWriting' = "closed"
            /\ AnchorsOffered(obs'.offered) = {} =>
                  catchpointDataSlowWriting' = catchpointDataSlowWriting]_vars

\* While the data file of round 1 is written, a range holding round 3 was
\* offered and refused, and the channel is closed.
C26_RefusedWithAnchor ==
    /\ pc = "writing" /\ caller = "commit"
    /\ obs.produced = "refused"
    /\ catchpointDataWriting # 0
    /\ db.round = 1
    /\ 3 \in AnchorsOffered(obs.offered)
    /\ catchpointDataSlowWriting = "closed"

\* generateCatchpointData is executing (under a commit or the boot-time replay).
GeneratingDataFile == pc = "writing"

\* No first stage is scheduled (queued or being committed) or executing.
NoFirstStage ==
    /\ FirstStageInFlight = 0
    /\ pc \notin {"firstStage", "writing", "info"}

C27_WritingImpliesSentinel ==
    GeneratingDataFile => isWritingCatchpointDataFile

C27_NoFirstStageImpliesIdleSentinel ==
    NoFirstStage => ~isWritingCatchpointDataFile

\* C27 (as stated): isWritingCatchpointDataFile() is true whenever a first-stage
\* data file is being generated, the boot-time replay included, and false
\* whenever no first stage is scheduled or executing.
C27_SentinelTracksFirstStage ==
    /\ C27_WritingImpliesSentinel
    /\ C27_NoFirstStageImpliesIdleSentinel

\* The steps of the commit syncer the claims about a failed commit speak of.
HandleCommitErrorStep == pc = "failed" /\ pc' = "idle"
ClearCommitRoundRetryStep == pc = "failed" /\ pc' = "commit"
CommitRoundStep == pc = "commit" /\ pc' \in {"tx", "failed"}

\* The in-memory trie carries nothing the store does not hold.
CleanTrie == balancesTrie = NilTrie \/ balancesTrie = db.trie

\* The digests a commit of the range of dcc leaves in a trie that held `trie`.
TrieAfterRange(trie) ==
    (trie \ (IF dcc.oldBase = 0 THEN {} ELSE {AccountHash(dcc.oldBase)}))
        \cup {AccountHash(newBase(dcc))}

\* commitRound works on a trie without mutations of a failed commit, and a
\* dropped trie is re-created from the persisted one before the deltas are
\* applied.
CommitRoundOnCleanTrie ==
    (CommitRoundStep /\ catchpointEnabled) =>
        /\ CleanTrie
        /\ balancesTrie' \in {balancesTrie, TrieAfterRange(db.trie)}
        /\ pc' = "tx" => balancesTrie' = TrieAfterRange(db.trie)

\* C28 (as stated): handleCommitError and clearCommitRoundRetry leave
\* balancesTrie nil, handleCommitError leaves the sentinel 0, and commitRound
\* never applies deltas to a trie carrying mutations of a failed commit.
C28_FailedCommitDropsTrie ==
    [][ /\ HandleCommitErrorStep =>
              (balancesTrie' = NilTrie /\ catchpointDataWriting' = 0)
        /\ ClearCommitRoundRetryStep => balancesTrie' = NilTrie
        /\ CommitRoundOnCleanTrie ]_vars

\* A retried commitRound has re-created the dropped trie from a non-empty
\* persisted trie and applied the deltas of a first-stage range to it.
C28_RetriedOnRecreatedTrie ==
    /\ pc = "tx" /\ retries > 0
    /\ catchpointEnabled /\ cfg.enableGeneratingCatchpointFiles
    /\ dcc.catchpointFirstStage
    /\ db.trie # {}
    /\ balancesTrie = TrieAfterRange(db.trie)

\* A task was cancelled by handleUnorderedCommit or handlePrepareCommitError.
CancelStep == obs'.cancelled # None /\ obs'.cancelled # obs.cancelled

\* C29: cancelling a task out of order, or after a failed preparation, stores 0
\* in the sentinel when the task is a first-stage task and file generation is
\* enabled, leaves the sentinel as it was for every other task, and leaves
\* roundDigest, consensusVersion, cachedDBRound, balancesTrie,
\* lastCatchpointLabel, the store and the files unchanged.
C29_CancelOnlyTouchesSentinel ==
    [][ CancelStep =>
          /\ (obs'.cancelled.first /\ cfg.enableGeneratingCatchpointFiles)
                 => catchpointDataWriting' = 0
          /\ ~obs'.cancelled.first
                 => catchpointDataWriting' = catchpointDataWriting
          /\ UNCHANGED <<roundDigest, consensusVersion, cachedDBRound,
                         balancesTrie, lastCatchpointLabel, db, dataFiles,
                         archives>> ]_vars

\* handlePrepareCommitError cancelled a first-stage task that held the sentinel.
C29_PreparedFirstStageCancelled ==
    /\ obs.cancelled # None
    /\ obs.cancelled.by = "handlePrepareCommitError"
    /\ obs.cancelled.first /\ obs.cancelled.was # 0
    /\ catchpointDataWriting = 0

\* handleUnorderedCommit dropped a first-stage task delivered out of order.
C29_UnorderedFirstStageCancelled ==
    /\ obs.cancelled # None
    /\ obs.cancelled.by = "handleUnorderedCommit"
    /\ obs.cancelled.first /\ cfg.enableGeneratingCatchpointFiles
    /\ catchpointDataWriting = 0

\* C30 (as stated): when a delete of an absent digest or an add of a present
\* one returns false during accountsUpdateBalances, accountsUpdateBalances
\* returns an error.
C30_FalseReturnFailsCommit ==
    (call.op = "accountsUpdateBalances" /\ call.done
        /\ call.out.replayed.logged > 0) => call.out.replayed.err

\* C31: roundDigest and consensusVersion have the same length and their i-th
\* entries are the digest and the protocol of block cachedDBRound + i; a task
\* prepareCommit is about to take asks for no more entries than the lists
\* hold, the digests it copied are those of the rounds of its range, and every
\* unfinished-catchpoint row, committed or written in the open transaction,
\* carries the digest of the block of its round.
C31_DigestsFollowDBRound ==
    /\ Len(roundDigest) = Len(consensusVersion)
    /\ \A i \in 1..Len(roundDigest) :
          /\ roundDigest[i] = BlockDigest(cachedDBRound + i)
          /\ consensusVersion[i] = BlockProto(cachedDBRound + i)
    /\ (pc = "idle" /\ queue # <<>> /\ InOrder(Head(queue))) =>
          Head(queue).offset <= Len(roundDigest)
    /\ dcc # None =>
          /\ Len(dcc.committedRoundDigests) = dcc.offset
          /\ \A i \in 1..dcc.offset :
                dcc.committedRoundDigests[i] = BlockDigest(dcc.oldBase + i)
    /\ \A r \in DOMAIN db.unfinished : db.unfinished[r] = BlockDigest(r)
    /\ txn # None =>
          \A r \in DOMAIN txn.unfinished : txn.unfinished[r] = BlockDigest(r)

\* postCommit trimmed two rounds, one of them a catchpoint round whose row
\* was inserted, and left the digest of a later block at the head of the list.
C31_TrimmedTwoRounds ==
    /\ pc \in {"firstStage", "catchpoints"} /\ caller = "commit"
    /\ dcc # None /\ dcc.offset = 2
    /\ cachedDBRound = newBase(dcc)
    /\ \E r \in DOMAIN db.unfinished : dcc.oldBase < r /\ r <= newBase(dcc)
    /\ roundDigest # <<>>
    /\ roundDigest[1] = BlockDigest(cachedDBRound + 1)

\* ================================================== the pacing of the writer
\* generateCatchpointData on its own: the chunks it writes, the deadline of
\* each, and what its select between two chunks did, while
\* produceCommittingTask may close the slow-writing channel at any moment.
\* Durations are in milliseconds.
shortChunkExecutionDuration == 50
longChunkExecutionDuration == 1000

\* A variant that doubles without the limit.
NextChunkExecutionDuration_Unlimited(d) == 2 * d

\* chunkExecutionDuration *= 2, stopped at longChunkExecutionDuration.
NextChunkExecutionDuration(d) ==
    IF 2 * d > longChunkExecutionDuration THEN longChunkExecutionDuration
    ELSE 2 * d

\* The writer before it starts: where it stands (at), its
\* chunkExecutionDuration, the channel as its first select found it, the
\* deadline of every FileWriteStep so far, what every select between chunks
\* did ("timer": slept the 100 ms; "closed": found the channel closed on
\* entry; "woken": the channel was closed while it slept), and the number of
\* chunks written when it first saw the channel closed (-1: not yet).
WriterScheduled ==
    [ at |-> "scheduled", chunkExecutionDuration |-> 0, found |-> "none",
      deadlines |-> <<>>, selects |-> <<>>, observed |-> -1 ]

WriterCalls ==
    { [ op |-> "generateCatchpointData", in |-> [ chunks |-> n ],
        out |-> WriterScheduled, done |-> FALSE ] : n \in 1..MaxChunks }

WriterInit ==
    /\ call \in WriterCalls
    /\ cfg \in {c \in PureConfigs : c.catchpointInterval = 2
                                    /\ c.catchpointLookback = 1}
    /\ Constructed
    /\ phonebook = None

writerFrame == <<cfg, latest, db, txn, dataFiles, archives,
                 catchpointDataWriting, balancesTrie, roundDigest,
                 consensusVersion, reenableCatchpointsRound, cachedDBRound,
                 lastCatchpointLabel, queue, dcc, pc, caller, rounds, st,
                 retries, stream, obs, phonebook>>

Writing == call.op = "generateCatchpointData" /\ ~call.done

\* produceCommittingTask schedules the first stage: a new channel, closed at
\* once when the range has several first-stage rounds.
ScheduleFirstStage ==
    /\ Writing /\ call.out.at = "scheduled"
    /\ \E multi \in BOOLEAN :
         catchpointDataSlowWriting' = IF multi THEN Close(MakeChan) ELSE MakeChan
    /\ call' = [call EXCEPT !.out.at = "start"]
    /\ UNCHANGED writerFrame

\* produceCommittingTask finds the writer busy and a first-stage round in the
\* offered range.
CloseSlowWriting ==
    /\ Writing /\ call.out.at \notin {"scheduled"}
    /\ catchpointDataSlowWriting = "open"
    /\ catchpointDataSlowWriting' =
           SlowWritingWhileBusy(TRUE, catchpointDataSlowWriting)
    /\ UNCHANGED <<call, writerFrame>>

\* The first select of generateCatchpointData.
WriterStart ==
    /\ Writing /\ call.out.at = "start"
    /\ call' = [call EXCEPT
          !.out.at = "step",
          !.out.found = catchpointDataSlowWriting,
          !.out.observed =
              IF catchpointDataSlowWriting = "closed" THEN 0 ELSE -1,
          !.out.chunkExecutionDuration =
              IF catchpointDataSlowWriting = "closed"
              THEN longChunkExecutionDuration
              ELSE shortChunkExecutionDuration]
    /\ UNCHANGED <<catchpointDataSlowWriting, writerFrame>>

\* FileWriteStep under the deadline chunkExecutionDuration: it fails, or it
\* wrote a chunk and there is more, or it wrote the last one.
FileWriteStep ==
    /\ Writing /\ call.out.at = "step"
    /\ \E err \in BOOLEAN :
         LET ds == Append(call.out.deadlines, call.out.chunkExecutionDuration)
             more == Len(ds) < call.in.chunks
         IN  call' = [call EXCEPT
                 !.out.deadlines = ds,
                 !.out.at = IF err THEN "error"
                            ELSE IF more THEN "select" ELSE "written",
                 !.done = err \/ ~more]
    /\ UNCHANGED <<catchpointDataSlowWriting, writerFrame>>

\* The select between two chunks is entered: with the channel closed it is
\* taken at once (or the cancelled context is), otherwise the writer sleeps.
SelectEnter ==
    /\ Writing /\ call.out.at = "select"
    /\ \/ /\ catchpointDataSlowWriting = "closed"
          /\ call' = [call EXCEPT
                !.out.at = "step",
                !.out.selects = Append(@, "closed"),
                !.out.observed = IF @ = -1 THEN Len(call.out.deadlines) ELSE @,
                !.out.chunkExecutionDuration = longChunkExecutionDuration]
       \/ /\ catchpointDataSlowWriting = "open"
          /\ call' = [call EXCEPT !.out.at = "sleep"]
       \/ call' = [call EXCEPT !.out.at = "cancel", !.done = TRUE]
    /\ UNCHANGED <<catchpointDataSlowWriting, writerFrame>>

\* The sleeping writer wakes: the 100 ms are over, or the channel was closed
\* meanwhile, or the context was cancelled. With the timer and the channel
\* both ready either case may be the one taken.
SelectWake ==
    /\ Writing /\ call.out.at = "sleep"
    /\ \/ call' = [call EXCEPT
                !.out.at = "step",
                !.out.selects = Append(@, "timer"),
                !.out.chunkExecutionDuration = NextChunkExecutionDuration(@)]
       \/ /\ catchpointDataSlowWriting = "closed"
          /\ call' = [call EXCEPT
                !.out.at = "step",
                !.out.selects = Append(@, "woken"),
                !.out.observed = IF @ = -1 THEN Len(call.out.deadlines) ELSE @,
                !.out.chunkExecutionDuration = longChunkExecutionDuration]
       \/ call' = [call EXCEPT !.out.at = "cancel", !.done = TRUE]
    /\ UNCHANGED <<catchpointDataSlowWriting, writerFrame>>

WriterNext ==
    \/ ScheduleFirstStage
    \/ CloseSlowWriting
    \/ WriterStart
    \/ FileWriteStep
    \/ SelectEnter
    \/ SelectWake

WriterSpec == WriterInit /\ [][WriterNext]_vars

\* 50, 100, 200, 400, 800, 1000, 1000, ... : the i-th deadline of a writer
\* that never saw the channel closed.
RampedDeadline(i) ==
    IF i >= 6 THEN 1000
    ELSE IF i = 1 THEN 50 ELSE IF i = 2 THEN 100 ELSE IF i = 3 THEN 200
    ELSE IF i = 4 THEN 400 ELSE 800

Addrs == {"a", "b"}
Networks == {"n1", "n2"}
PhoneBookEntryRelayRole == 1
PhoneBookEntryArchivalRole == 2
Roles == {PhoneBookEntryRelayRole, PhoneBookEntryArchivalRole}

makePhonebookEntryData(networkName, role, persistent) ==
    [ retryAfter |-> 0, recentConnectionTimes |-> <<>>,
      networkNames |-> {networkName}, role |-> role,
      persistent |-> persistent ]

\* MakePhonebook: no address; data[addr] = None says addr is not in the map.
MakePhonebook(count, window) ==
    [ connectionsRateLimitingCount |-> count,
      connectionsRateLimitingWindow |-> window,
      data |-> [a \in Addrs |-> None],
      now |-> 1,            \* time.Now()
      issued |-> {},        \* the provisional times handed out: [addr, time]
      last |-> None ]       \* the last call: its name, arguments and result

Has(data, addr) == data[addr] # None

\* A variant that drops the entry whatever networks it has left.
deletePhonebookEntry_Whole(data, entryName, networkName) ==
    [data EXCEPT ![entryName] = None]

\* deletePhonebookEntry: drop the network of the entry, and the entry with
\* its last network.
deletePhonebookEntry(data, entryName, networkName) ==
    LET names == data[entryName].networkNames \ {networkName}
    IN  [data EXCEPT ![entryName] =
            IF names = {} THEN None ELSE [@ EXCEPT !.networkNames = names]]

\* A variant of the removal list that forgets the persistent flag.
removeItems_Persistent(data, networkName, role) ==
    {k \in Addrs : /\ Has(data, k)
                   /\ networkName \in data[k].networkNames
                   /\ data[k].role = role}

\* The items ReplacePeerList would like to remove.
removeItems(data, networkName, role) ==
    {k \in Addrs : /\ Has(data, k)
                   /\ networkName \in data[k].networkNames
                   /\ data[k].role = role
                   /\ ~data[k].persistent}

RECURSIVE deleteAll(_, _, _)
deleteAll(data, items, networkName) ==
    IF items = {} THEN data
    ELSE LET k == CHOOSE x \in items : TRUE
         IN  deleteAll(deletePhonebookEntry(data, k, networkName),
                       items \ {k}, networkName)

\* ReplacePeerList: the addresses given are tagged with the network, or added;
\* the others of the removal list lose the network.
ReplacePeerList(data, addressesThey, networkName, role) ==
    LET remove == removeItems(data, networkName, role) \ addressesThey
        merged == [a \in Addrs |->
                     IF a \notin addressesThey THEN data[a]
                     ELSE IF Has(data, a)
                     THEN [data[a] EXCEPT !.networkNames = @ \cup {networkName}]
                     ELSE makePhonebookEntryData(networkName, role, FALSE)]
    IN  deleteAll(merged, remove, networkName)

\* AddPersistentPeers: the addresses given become persistent, or are added as
\* persistent.
AddPersistentPeers(data, dnsAddresses, networkName, role) ==
    [a \in Addrs |->
        IF a \notin dnsAddresses THEN data[a]
        ELSE IF Has(data, a) THEN [data[a] EXCEPT !.persistent = TRUE]
        ELSE makePhonebookEntryData(networkName, role, TRUE)]

UpdateRetryAfter(data, addr, retryAfter) ==
    IF Has(data, addr) THEN [data EXCEPT ![addr].retryAfter = retryAfter]
    ELSE data

\* The loop of GetConnectionWaitTime over the recent connection times: how
\* many leading ones are expired, and the age of the last one looked at.
RECURSIVE Expired(_, _, _, _)
Expired(times, curTime, window, n) ==
    IF n >= Len(times) THEN [n |-> n, timeSince |->
                                IF n = 0 THEN 0 ELSE curTime - times[n]]
    ELSE IF curTime - times[n + 1] >= window
    THEN Expired(times, curTime, window, n + 1)
    ELSE [n |-> n, timeSince |-> curTime - times[n + 1]]

\* A variant that lets every caller through.
mustWait_Never(numElts, count) == FALSE

\* uint(numElts) >= e.connectionsRateLimitingCount
mustWait(numElts, count) == numElts >= count

\* GetConnectionWaitTime at curTime, with provisionalTime the second reading
\* of the clock: the phonebook's data, and what is returned.
GetConnectionWaitTime(pb, addr, curTime, provisionalTime) ==
    IF ~Has(pb.data, addr)
    THEN [ data |-> pb.data, addrInPhonebook |-> FALSE, waitTime |-> 0,
           provisionalTime |-> curTime, registered |-> FALSE ]
    ELSE LET x == Expired(pb.data[addr].recentConnectionTimes, curTime,
                          pb.connectionsRateLimitingWindow, 0)
             kept == SubSeq(pb.data[addr].recentConnectionTimes, x.n + 1,
                            Len(pb.data[addr].recentConnectionTimes))
             popped == [pb.data EXCEPT ![addr].recentConnectionTimes = kept]
         IN  IF mustWait(Len(kept), pb.connectionsRateLimitingCount)
             THEN [ data |-> popped, addrInPhonebook |-> TRUE,
                    waitTime |-> pb.connectionsRateLimitingWindow - x.timeSince,
                    provisionalTime |-> curTime, registered |-> FALSE ]
             ELSE [ data |-> [popped EXCEPT ![addr].recentConnectionTimes =
                                 Append(@, provisionalTime)],
                    addrInPhonebook |-> TRUE, waitTime |-> 0,
                    provisionalTime |-> provisionalTime, registered |-> TRUE ]

\* The first index of t in times, 0 when it is not there.
IndexOf(times, t) ==
    IF \E i \in 1..Len(times) : times[i] = t
    THEN Min({i \in 1..Len(times) : times[i] = t}) ELSE 0

\* UpdateConnectionTime: the provisional time becomes the current time; a
\* provisional time that is no longer listed is added again.
UpdateConnectionTime(data, addr, provisionalTime, curTime) ==
    IF ~Has(data, addr) THEN [ data |-> data, found |-> FALSE ]
    ELSE LET times == data[addr].recentConnectionTimes
             i == IndexOf(times, provisionalTime)
         IN  [ data |-> [data EXCEPT ![addr].recentConnectionTimes =
                            IF i # 0 THEN [times EXCEPT ![i] = curTime]
                            ELSE Append(times, curTime)],
               found |-> TRUE ]

\* ---------------------------------------------------- the phonebook's calls
trackerVarsButPhonebook ==
    <<cfg, latest, db, txn, dataFiles, archives, catchpointDataWriting,
      catchpointDataSlowWriting, balancesTrie, roundDigest, consensusVersion,
      reenableCatchpointsRound, cachedDBRound, lastCatchpointLabel, queue, dcc,
      pc, caller, rounds, st, retries, stream, obs>>

\* The phonebook with the relay "a" of the network "n1" in it.
PhonebookInit ==
    /\ cfg \in {c \in PureConfigs : c.catchpointInterval = 2
                                    /\ c.catchpointLookback = 1}
    /\ Constructed
    /\ call = None
    /\ phonebook = MakePhonebook(1, 2)

CallReplacePeerList ==
    /\ \E addrs \in SUBSET Addrs, n \in Networks, role \in Roles :
         phonebook' = [phonebook EXCEPT
            !.data = ReplacePeerList(@, addrs, n, role),
            !.last = [ op |-> "ReplacePeerList", addrs |-> addrs,
                       networkName |-> n, role |-> role,
                       dropped |-> {k \in Addrs \ addrs :
                           /\ Has(phonebook.data, k)
                           /\ ~Has(ReplacePeerList(phonebook.data, addrs, n,
                                                   role), k)} ]]
    /\ UNCHANGED <<call, trackerVarsButPhonebook>>

CallAddPersistentPeers ==
    /\ \E addrs \in SUBSET Addrs, n \in Networks, role \in Roles :
         phonebook' = [phonebook EXCEPT
            !.data = AddPersistentPeers(@, addrs, n, role),
            !.last = [ op |-> "AddPersistentPeers", addrs |-> addrs,
                       networkName |-> n, role |-> role ]]
    /\ UNCHANGED <<call, trackerVarsButPhonebook>>

CallUpdateRetryAfter ==
    /\ \E addr \in Addrs :
         phonebook' = [phonebook EXCEPT
            !.data = UpdateRetryAfter(@, addr, phonebook.now),
            !.last = [ op |-> "UpdateRetryAfter", addr |-> addr ]]
    /\ UNCHANGED <<call, trackerVarsButPhonebook>>

\* The recent connection times of addr that lie within the window at time t.
Unexpired(pb, addr, t) ==
    IF ~Has(pb.data, addr) THEN 0
    ELSE Cardinality({i \in 1..Len(pb.data[addr].recentConnectionTimes) :
            t - pb.data[addr].recentConnectionTimes[i]
                < pb.connectionsRateLimitingWindow})

\* A call of GetConnectionWaitTime whose second reading of the clock is not
\* after horizon.
GetConnectionWaitTimeBefore(horizon) ==
    /\ \E addr \in Addrs :
       \E t \in phonebook.now..Min({phonebook.now + 1, horizon}) :
         LET r == GetConnectionWaitTime(phonebook, addr, phonebook.now, t)
         IN  /\ Has(phonebook.data, addr) =>
                   Len(r.data[addr].recentConnectionTimes) <= MaxTimes
             /\ phonebook' = [phonebook EXCEPT
                   !.data = r.data,
                   !.now = IF r.registered THEN t ELSE @,
                   !.issued = IF r.registered
                              THEN @ \cup {[addr |-> addr, time |-> t]} ELSE @,
                   !.last = [ op |-> "GetConnectionWaitTime", addr |-> addr,
                              addrInPhonebook |-> r.addrInPhonebook,
                              waitTime |-> r.waitTime,
                              registered |-> r.registered,
                              unexpired |->
                                  Unexpired(phonebook, addr, phonebook.now) ]]
    /\ UNCHANGED <<call, trackerVarsButPhonebook>>

\* A connection is asked for while the peer lists are maintained.
Connect == GetConnectionWaitTimeBefore(phonebook.now)

PhonebookNext ==
    \/ CallReplacePeerList
    \/ CallAddPersistentPeers
    \/ CallUpdateRetryAfter
    \/ Connect

PhonebookSpec == PhonebookInit /\ [][PhonebookNext]_vars

\* ------------------------------------------------------ the rate limiting
\* The phonebook with the relay "a" of the network "n1" in it, under a rate
\* limit of 1 or more connections in a window of 2.
RateLimitInit ==
    /\ cfg \in {c \in PureConfigs : c.catchpointInterval = 2
                                    /\ c.catchpointLookback = 1}
    /\ Constructed
    /\ call = None
    /\ \E count \in 1..MaxRateLimit :
         phonebook = [MakePhonebook(count, 2) EXCEPT
            !.data = ReplacePeerList(@, {"a"}, "n1", PhoneBookEntryRelayRole)]

Tick ==
    /\ phonebook.now < MaxTime
    /\ phonebook' = [phonebook EXCEPT !.now = @ + 1]
    /\ UNCHANGED <<call, trackerVarsButPhonebook>>

CallGetConnectionWaitTime == GetConnectionWaitTimeBefore(MaxTime)

CallUpdateConnectionTime ==
    /\ \E p \in phonebook.issued :
         LET r == UpdateConnectionTime(phonebook.data, p.addr, p.time,
                                       phonebook.now)
         IN  /\ Has(phonebook.data, p.addr) =>
                   Len(r.data[p.addr].recentConnectionTimes) <= MaxTimes
             /\ phonebook' = [phonebook EXCEPT
                   !.data = r.data,
                   !.issued = @ \ {p},
                   !.last = [ op |-> "UpdateConnectionTime", addr |-> p.addr,
                              provisionalTime |-> p.time,
                              found |-> r.found ]]
    /\ UNCHANGED <<call, trackerVarsButPhonebook>>

RateLimitNext ==
    \/ Tick
    \/ CallGetConnectionWaitTime
    \/ CallUpdateConnectionTime

RateLimitSpec == RateLimitInit /\ [][RateLimitNext]_vars

\* The step is a call of ReplacePeerList / AddPersistentPeers; its arguments
\* are in phonebook'.last.
ReplacePeerListStep ==
    phonebook'.last # None /\ phonebook'.last.op = "ReplacePeerList"
AddPersistentPeersStep ==
    phonebook'.last # None /\ phonebook'.last.op = "AddPersistentPeers"

\* C33: after ReplacePeerList(addrs, network, role) every address of addrs is
\* in the phonebook with the network among its networks, a known one
\* otherwise as it was, a new one as a fresh non-persistent entry of the role;
\* every other non-persistent entry of the network and the role has lost the
\* network, and is gone when it had no other; every other entry is as it was.
C33_ReplaceMerges ==
    [][ ReplacePeerListStep =>
          LET addrs == phonebook'.last.addrs
              n == phonebook'.last.networkName
              role == phonebook'.last.role
              old == phonebook.data
              new == phonebook'.data
          IN  \A k \in Addrs :
                /\ k \in addrs =>
                     /\ Has(new, k) /\ n \in new[k].networkNames
                     /\ Has(old, k) =>
                          /\ new[k].networkNames = old[k].networkNames \cup {n}
                          /\ new[k].retryAfter = old[k].retryAfter
                          /\ new[k].recentConnectionTimes =
                                 old[k].recentConnectionTimes
                          /\ new[k].role = old[k].role
                          /\ new[k].persistent = old[k].persistent
                     /\ ~Has(old, k) =>
                          /\ new[k].networkNames = {n}
                          /\ new[k].role = role
                          /\ ~new[k].persistent
                /\ (k \notin addrs /\ Has(old, k)) =>
                     IF /\ n \in old[k].networkNames
                        /\ old[k].role = role
                        /\ ~old[k].persistent
                     THEN IF old[k].networkNames = {n} THEN ~Has(new, k)
                          ELSE /\ Has(new, k)
                               /\ new[k] = [old[k] EXCEPT
                                               !.networkNames = @ \ {n}]
                     ELSE new[k] = old[k]
                /\ (k \notin addrs /\ ~Has(old, k)) => ~Has(new, k) ]_vars

\* ReplacePeerList kept an address of two networks with its retry time and its
\* connection time, and dropped the other address from the phonebook.
C33_KeptOneDroppedOne ==
    /\ phonebook.last # None /\ phonebook.last.op = "ReplacePeerList"
    /\ phonebook.last.dropped # {}
    /\ \E k \in phonebook.last.addrs :
          /\ Has(phonebook.data, k)
          /\ phonebook.data[k].networkNames = Networks
          /\ phonebook.data[k].retryAfter # 0
          /\ phonebook.data[k].recentConnectionTimes # <<>>

\* C34: AddPersistentPeers leaves every address it is given in the phonebook
\* and persistent; and a persistent address stays in the phonebook,
\* persistent, with every network it has, whatever is called next.
C34_PersistentPeersStay ==
    [][ /\ AddPersistentPeersStep =>
              \A k \in phonebook'.last.addrs :
                  /\ Has(phonebook'.data, k)
                  /\ phonebook'.data[k].persistent
        /\ \A k \in Addrs :
              (Has(phonebook.data, k) /\ phonebook.data[k].persistent) =>
                  /\ Has(phonebook'.data, k)
                  /\ phonebook'.data[k].persistent
                  /\ phonebook.data[k].networkNames
                         \subseteq phonebook'.data[k].networkNames ]_vars

\* ReplacePeerList was called for the network and the role of a persistent
\* address with a list that leaves it out, and dropped another address.
C34_PersistentLeftOut ==
    /\ phonebook.last # None /\ phonebook.last.op = "ReplacePeerList"
    /\ phonebook.last.dropped # {}
    /\ \E k \in Addrs \ phonebook.last.addrs :
          /\ Has(phonebook.data, k)
          /\ phonebook.data[k].persistent
          /\ phonebook.last.networkName \in phonebook.data[k].networkNames
          /\ phonebook.last.role = phonebook.data[k].role

\* The connection times recorded for an address that lie within the window
\* never outnumber the rate limit.
RateLimitKept ==
    \A a \in Addrs :
        Unexpired(phonebook, a, phonebook.now)
            <= phonebook.connectionsRateLimitingCount

\* GetConnectionWaitTime lets the caller through, registering a provisional
\* time, only with fewer unexpired times than the limit; otherwise it returns
\* a wait within (0, window].
WaitTimeFollowsLimit ==
    (/\ phonebook.last # None
     /\ phonebook.last.op = "GetConnectionWaitTime"
     /\ phonebook.last.addrInPhonebook) =>
        /\ phonebook.last.registered =>
              /\ phonebook.last.waitTime = 0
              /\ phonebook.last.unexpired
                     < phonebook.connectionsRateLimitingCount
        /\ ~phonebook.last.registered =>
              /\ phonebook.last.waitTime > 0
              /\ phonebook.last.waitTime
                     <= phonebook.connectionsRateLimitingWindow
        /\ phonebook.last.unexpired >= phonebook.connectionsRateLimitingCount
              => ~phonebook.last.registered

\* C35 (as stated): after any interleaving of GetConnectionWaitTime and
\* UpdateConnectionTime the recorded connection times of an address within
\* the window are at most connectionsRateLimitingCount, and
\* GetConnectionWaitTime registers a provisional time, with wait 0, only when
\* fewer are recorded, and otherwise returns a wait in (0, window].
C35_RateLimitNeverExceeded ==
    /\ RateLimitKept
    /\ WaitTimeFollowsLimit

\* ---------------------------------------------- the keys of first-stage info
\* C36 (as stated): every CatchpointFirstStageInfo row, inserted by a
\* first stage at commit time or by the replay at boot, is keyed by a
\* first-stage round a: (a + catchpointLookback) mod catchpointInterval = 0.
C36_RowsKeyedByAnchor ==
    \A r \in DOMAIN db.info : catchpointEnabled /\ IsFirstStageRound(r)
\* ------------------------------------------------- the offset of the task
\* A first-stage round lies in (oldBase, oldBase + offset].
AnchorInRange(in) ==
    \E r \in (in.oldBase + 1)..(in.oldBase + in.offset) :
        (r + in.lookback) % in.interval = 0

\* C37: for every offered range with offset >= 1 the new offset of
\* calculateFirstStageRounds, which produceCommittingTask assigns to the range
\* it returns, satisfies 1 <= newOffset <= offset, and it equals the offered
\* offset whenever no first-stage round lies in the range.
C37_OffsetNarrowedNeverEmptied ==
    (call.op = "calculateFirstStageRounds" /\ call.done /\ call.in.offset >= 1)
        => /\ 1 <= call.out.newOffset
           /\ call.out.newOffset <= call.in.offset
           /\ ~AnchorInRange(call.in) => call.out.newOffset = call.in.offset

C37_NarrowedRange ==
    /\ call.op = "calculateFirstStageRounds" /\ call.done
    /\ call.in.offset >= 2
    /\ call.out.has
    /\ 1 <= call.out.newOffset
    /\ call.out.newOffset < call.in.offset
\* ------------------------------------------------ closing the channel once
\* C38: the slow-writing channel is never closed twice: loadFromDisk and the
\* scheduling path of produceCommittingTask close a channel they have just
\* made, and the path that finds the writer busy closes the channel only when
\* its select found it open; no reachable state is the panic of a second
\* close.
C38_NeverClosedTwice == catchpointDataSlowWriting \in {"open", "closed"}

\* A range with a first-stage round was offered while the writer was busy
\* and the channel already closed.
C38_SecondRequestWhileClosed ==
    /\ obs.produced = "refused"
    /\ obs.found = "closed"
    /\ AnchorsOffered(obs.offered) # {}
    /\ isWritingCatchpointDataFile
    /\ catchpointDataSlowWriting = "closed"
\* ------------------------------------------- the round catchpoints resume at
\* The first-stage tasks that are scheduled: queued or being committed.
ScheduledFirstStages ==
    {queue[i] : i \in {j \in 1..Len(queue) : queue[j].catchpointFirstStage}}
        \cup (IF dcc # None /\ dcc.catchpointFirstStage
              THEN {Task(dcc.oldBase, dcc.offset, TRUE,
                         dcc.catchpointSecondStage)}
              ELSE {})

\* reenableCatchpointsRound is set by a newBlock that finds it 0, to the round
\* of the block plus the lookback, and is not changed while the tracker runs.
ReenableSetOnce ==
    [][/\ (reenableCatchpointsRound = 0 /\ reenableCatchpointsRound' # 0) =>
             /\ Len(roundDigest') = Len(roundDigest) + 1
             /\ EnableCatchpointsWithSPContexts(
                    BlockProto(cachedDBRound + Len(roundDigest')))
             /\ reenableCatchpointsRound' =
                    cachedDBRound + Len(roundDigest') + cfg.catchpointLookback
       /\ (reenableCatchpointsRound # 0 /\ pc' # "down") =>
             reenableCatchpointsRound' = reenableCatchpointsRound]_vars

\* No first stage is scheduled while reenableCatchpointsRound is 0, and none
\* for an accounts round before reenableCatchpointsRound - catchpointLookback.
FirstStagesAfterReenable ==
    \A d \in ScheduledFirstStages :
        /\ reenableCatchpointsRound # 0
        /\ newBase(d) + cfg.catchpointLookback >= reenableCatchpointsRound

\* A step of finishCatchpoint that produces a label.
LabelProduced ==
    /\ pc = "catchpoints" /\ rounds # <<>>
    /\ lastCatchpointLabel' # lastCatchpointLabel

\* No label is produced for a block round before reenableCatchpointsRound.
LabelsAfterReenable ==
    [][LabelProduced => Head(rounds) >= reenableCatchpointsRound]_vars

\* C39 (as stated): reenableCatchpointsRound is set at most once, by the first
\* newBlock whose protocol enables catchpoints with SP contexts, to the round
\* of that block plus the lookback, and never changes afterwards; while it is
\* 0 no first stage is scheduled, none is scheduled for an accounts round
\* before reenableCatchpointsRound - catchpointLookback, and so no catchpoint
\* label is produced for a block round before reenableCatchpointsRound.
C39_NoCatchpointBeforeReenable ==
    /\ ReenableSetOnce
    /\ []FirstStagesAfterReenable
    /\ LabelsAfterReenable
\* ------------------------------------------- tracking without generating
\* Catchpoints are tracked and no catchpoint file is generated.
TrackingOnly == catchpointEnabled /\ ~cfg.enableGeneratingCatchpointFiles

\* A first stage returns without error, at commit time or in the replay at
\* boot.
FirstStageReturned ==
    /\ pc \in {"firstStage", "writing", "info"}
    /\ pc' = "catchpoints"
    /\ ~st'.fsErr

\* finishCatchpoint of the round at the head returns without error, its
\* first-stage info being in the store.
SecondStageReturnedWithInfo ==
    /\ pc = "catchpoints" /\ rounds # <<>>
    /\ pc' = "catchpoints" /\ rounds' = Tail(rounds)
    /\ st'.fc # None /\ st'.fc.round = Head(rounds) /\ ~st'.fc.err
    /\ (Head(rounds) - (IF caller = "commit" THEN cfg.catchpointLookback
                        ELSE db.lookback)) \in DOMAIN db.info

\* C40: with catchpoints tracked and file generation disabled, every first
\* stage that returns without error has recorded the first-stage info row of
\* its round, every stage 2 that returns without error and finds the
\* first-stage info writes the label of its round to the store and to memory,
\* and at all times there is no data file, no archive file and no
\* file-registry row, and the sentinel is 0.
C40_TrackingWithoutFiles ==
    /\ [](TrackingOnly =>
             /\ DOMAIN dataFiles = {}
             /\ DOMAIN archives = {}
             /\ db.files = {}
             /\ catchpointDataWriting = 0)
    /\ [][TrackingOnly =>
             /\ FirstStageReturned => FirstStageRound \in DOMAIN db'.info
             /\ SecondStageReturnedWithInfo =>
                   /\ lastCatchpointLabel' # NoLabel
                   /\ lastCatchpointLabel'[2] = Head(rounds)
                   /\ db'.label = lastCatchpointLabel']_vars

\* On such a node a first-stage commit recorded its row and its stage 2 made
\* the label of round 2.
C40_LabelWithoutFiles ==
    /\ TrackingOnly
    /\ caller = "commit" /\ dcc # None /\ dcc.catchpointFirstStage
    /\ ~st.fsErr /\ newBase(dcc) \in DOMAIN db.info
    /\ st.fc # None /\ ~st.fc.err /\ st.fc.round = 2
    /\ lastCatchpointLabel # NoLabel /\ lastCatchpointLabel[2] = 2
    /\ DOMAIN dataFiles = {} /\ DOMAIN archives = {}
====
